---- MODULE Spec2Model ----
(***************************************************************************)
(* Model of the asynchronous file loader (gustrain/async-loader).         *)
(*                                                                         *)
(* Worker processes call async_try_request / async_try_get /               *)
(* async_release on a per-worker queue of entries kept on three intrusive  *)
(* doubly linked lists (free, ready, completed).  The loader process runs  *)
(* a reader thread (pops ready, sets up the shared-memory object, submits  *)
(* a read to the kernel ring) and a responder thread (waits for            *)
(* completions, pushes the entry onto completed).                          *)
(*                                                                         *)
(* Granularity: a list operation is atomic (it runs under the list's       *)
(* spinlock); a worker call and one loop iteration of the reader or of     *)
(* the responder is one step.  Entries are numbered 1..n_states *          *)
(* queue_depth, worker w owning w * queue_depth + 1 .. (w+1) * queue_depth,*)
(* and the links next/prev hold entry numbers, as the C pointers do.       *)
(***************************************************************************)
EXTENDS Integers, Sequences, FiniteSets, TLC

\* ---------------------------------------------------------------- bounds
MaxQueueDepth == 3
MaxWorkers == 2
MaxEntries == 3
MaxRequests == 3
MaxFaults == 1
MaxFaultRequests == 3
MaxFileSize == 8193

\* ------------------------------------------------------ program constants
MAX_PATH_LEN == 128
ErrLimit == 32
PageMask == 4095
EAGAIN == 11
ENOMEM == 12

NULL == 0

\* init_status while async_init has not returned (its results are <= 0).
NotCalled == 1

\* Paths are C strings, written as sequences of characters.  The workers may
\* name the files of Paths; MissingPath stands for a file that cannot be
\* opened (the test's "nonexistent.xyz").
MissingPath == <<"x">>
GoodPath == <<"d", "/", "b">>
Paths == {GoodPath, MissingPath}
NoPath == <<>>
Exists(p) == p # MissingPath

VARIABLES
    queue_depth,    \* entries per worker (async_init argument)
    n_states,       \* number of workers (loader->n_states)
    req_budget,     \* bound of this run: requests accepted, reads submitted, entries served
    fault_budget,   \* bound of this run: injected system-call failures
    dispatch_n,     \* loader->dispatch_n
    max_idle_iters, \* loader->max_idle_iters (reorder loader)
    free,           \* free[w]: head of worker w's free list (or NULL)
    ready,          \* ready[w]: head of worker w's ready list
    completed,      \* completed[w]: head of worker w's completed list
    next,           \* next[e]: e->next
    prev,           \* prev[e]: e->prev
    path,           \* path[e]: e->path
    fd,             \* fd[e]: "open" when e->fd is an open descriptor, else "none"
    shm_fp,         \* shm_fp[e]: name derived from the path at the last setup
    shm_lfd,        \* shm_lfd[e]: TRUE while e->shm_lfd is an open descriptor
    shm_lmapped,    \* shm_lmapped[e]: e->shm_lmapped
    shm_ldata,      \* shm_ldata[e]: "none", "mapped" or "MAP_FAILED"
    shm_wfd,        \* shm_wfd[e]: TRUE while the worker-side descriptor/mapping exists
    shm_objs,       \* names of the shared-memory objects that exist
    inflight,       \* inflight[e]: reads submitted to the ring for e and not yet completed
    cq,             \* completion queue: sequence of [e, res]
    i,              \* the reader's visit counter, modulo n_states
    cnt,            \* the responder's count of failed completions
    loader_up,      \* FALSE once the loader process has exited
    aborted,        \* workers whose process was ended by a failed assert
    held,           \* held[e]: how many times the owner currently holds e (try_get .. release)
    outstanding,    \* outstanding[w]: successful try_request calls minus release calls
    faults,         \* injected system-call failures so far
    nreq,           \* successful try_request calls so far (all workers)
    nsub,           \* reads submitted to the ring so far
    ndeliv,         \* entries returned by try_get so far
    read_ok,        \* read_ok[e]: successful reads of e pushed onto completed and not yet taken
    n_queued,       \* loader->n_queued: requests staged in the LBA sorting queue
    idle_iters,     \* loader->idle_iters
    sortable,       \* loader->sortable: array of pointers to wrappers
    wrappers,       \* loader->wrappers: wrappers[k] = [key, data]
    test,           \* test[w]: position and locals of test_worker_loop in worker w
    st_size,        \* the size in bytes that fstat reports for the files of this run
    size,           \* size[e]: e->size
    shm_len,        \* shm_len[name]: length of the shared-memory object called name
    llen,           \* llen[e]: length of the loader's mapping e->shm_ldata (0: none)
    wlen,           \* wlen[e]: length of the worker's mapping e->shm_wdata (0: none)
    init_status,    \* what async_init returned (NotCalled before it returns)
    states,         \* TRUE while loader->states, the queue mapping, is allocated
    ring_up,        \* TRUE once io_uring_queue_init has set up loader->ring
    reader_up,      \* TRUE once the reader thread runs
    responder_up,   \* TRUE once async_start has become the responder
    lock,           \* lock[<<w, l>>]: the process or thread that holds the spinlock of list l of worker w
    pc,             \* pc[p]: where process or thread p is inside the call it executes
    last            \* the last operation and what it returned

config == <<queue_depth, n_states, req_budget, fault_budget, dispatch_n,
            max_idle_iters, st_size>>
sizes == <<size, shm_len, llen, wlen>>
lifecycle == <<init_status, states, ring_up, reader_up, responder_up>>
threads == <<lock, pc>>
lists == <<free, ready, completed, next, prev>>
loader_shm == <<shm_fp, shm_lfd, shm_lmapped, shm_ldata>>
ring == <<inflight, cq>>
responder == <<cnt, loader_up>>
ghost == <<outstanding, nreq, nsub, ndeliv, read_ok>>
reorder == <<n_queued, idle_iters, sortable, wrappers>>

vars == <<config, lists, path, fd, loader_shm, shm_wfd, shm_objs, ring, i,
          responder, aborted, held, faults, ghost, reorder, test, sizes,
          lifecycle, threads, last>>

Workers == 0 .. (n_states - 1)
Entries == 1 .. (n_states * queue_depth)

\* e->worker: the queue that owns entry e (set once by async_init).
worker(e) == (e - 1) \div queue_depth

\* &state->queue[j] for worker w.
QueueEntry(qd, w, j) == w * qd + j + 1

\* ------------------------------------------------------------------ lists
\* 2^64 mod m, computed without leaving 32-bit integers.
Pow2_16Mod(m) == 65536 % m
Pow2_64Mod(m) ==
    LET a == Pow2_16Mod(m)
        b == (a * a) % m
    IN (b * b) % m

\* (x mod 2^64) % m for a size_t expression whose mathematical value x may be
\* negative (x >= -2^64).
SizeTMod(x, m) == IF x >= 0 THEN x % m ELSE (Pow2_64Mod(m) + (x % m)) % m

fifo_push(head, nx, pv, elem) ==
    IF head = NULL
    THEN [head |-> elem,
          next |-> [nx EXCEPT ![elem] = elem],
          prev |-> [pv EXCEPT ![elem] = elem]]
    ELSE LET pv1 == [pv EXCEPT ![elem] = pv[head]]
             nx1 == [nx EXCEPT ![elem] = nx[head]]
             nx2 == [nx1 EXCEPT ![pv1[head]] = elem]
             pv2 == [pv1 EXCEPT ![head] = elem]
         IN [head |-> head, next |-> nx2, prev |-> pv2]

fifo_pop(head, nx, pv) ==
    IF head = NULL
    THEN [out |-> NULL, head |-> NULL, next |-> nx, prev |-> pv]
    ELSE LET pv1 == [pv EXCEPT ![nx[head]] = pv[head]]
             nx1 == [nx EXCEPT ![pv1[head]] = nx[head]]
             h1  == nx1[head]
         IN [out |-> head,
             head |-> IF h1 = head THEN NULL ELSE h1,
             next |-> nx1, prev |-> pv1]

\* The entries met by following next from head, in order, each once.
RECURSIVE Walk(_, _, _)
Walk(e, nx, seen) ==
    IF e = NULL \/ e \in seen THEN <<>>
    ELSE <<e>> \o Walk(nx[e], nx, seen \cup {e})

ListSeq(head) == Walk(head, next, {})
Range(s) == {s[k] : k \in 1 .. Len(s)}
Members(head) == Range(ListSeq(head))

\* ----------------------------------------------------------------- strings
Min(a, b) == IF a <= b THEN a ELSE b

\* The terminating byte of a C string.
NUL == "NUL"

\* The bytes of e->path, char[MAX_PATH_LEN + 1], when it holds the C string
\* str: the memory comes zeroed from the allocation, and every strncpy
\* since has filled the first MAX_PATH_LEN bytes up with NULs.
PathBuf(str) == str \o [k \in 1 .. (MAX_PATH_LEN + 1 - Len(str)) |-> NUL]

\* strncpy that stops at the end of src without filling up with NULs.
strncpy_nopad(dst, src, n) ==
    SubSeq(src, 1, Min(Len(src), n))
    \o SubSeq(dst, Min(Len(src), n) + 1, Len(dst))

\* strncpy(dst, src, n) on byte arrays: the first n bytes of dst become src
\* followed by NULs, or the first n bytes of src when src is longer; the
\* other bytes of dst stay.
strncpy(dst, src, n) ==
    SubSeq(src, 1, Min(Len(src), n))
    \o [k \in 1 .. (n - Min(Len(src), n)) |-> NUL]
    \o SubSeq(dst, n + 1, Len(dst))

\* The C string that starts at the first byte of buf.
CStr(buf) ==
    LET nuls == {k \in 1 .. Len(buf) : buf[k] = NUL}
    IN IF nuls = {} THEN buf
       ELSE SubSeq(buf, 1, (CHOOSE k \in nuls : \A m \in nuls : k <= m) - 1)

\* e->path, as a C string, after strncpy(e->path, p, MAX_PATH_LEN) when it
\* held old before.
StoredPath(old, p) == CStr(strncpy(PathBuf(old), p, MAX_PATH_LEN))

\* e->shm_fp as built by async_perform_io: '/' then the path with every '/'
\* replaced by '_'.
ShmName(p) == <<"/">> \o [k \in 1 .. Len(p) |-> IF p[k] = "/" THEN "_" ELSE p[k]]

\* ---------------------------------------------------------------- threads
\* The worker processes and the two threads of the loader.
Worker(w) == <<"worker", w>>
Reader == <<"reader", 0>>
Responder == <<"responder", 0>>
NoProc == <<"none", 0>>

\* The spinlocks: free_lock, ready_lock and completed_lock of each worker.
LockOf(w, l) == <<w, l>>

\* A process or thread that is not inside a call (the loops: at the top of
\* an iteration).
Idle == [at |-> "idle", w |-> 0, e |-> NULL, arg |-> <<>>]

\* ------------------------------------------------------------------- init
\* A worker process that does not run test_worker_loop.
NoTest == [pc |-> "none", i |-> 0, n_filepaths |-> 0, entries |-> <<>>]

Op(op, w, e, ret) == [op |-> op, w |-> w, e |-> e, ret |-> ret]

\* async_init: every entry linked into its worker's free list, in index
\* order; the index arithmetic is that of size_t.
async_init(qd, nw) ==
    /\ queue_depth = qd
    /\ n_states = nw
    /\ next = [e \in 1 .. (nw * qd) |->
                 LET w == (e - 1) \div qd
                     j == (e - 1) % qd
                 IN QueueEntry(qd, w, SizeTMod(j + 1, qd))]
    /\ prev = [e \in 1 .. (nw * qd) |->
                 LET w == (e - 1) \div qd
                     j == (e - 1) % qd
                 IN QueueEntry(qd, w, SizeTMod(j - 1, qd))]
    /\ free = [w \in 0 .. (nw - 1) |-> QueueEntry(qd, w, 0)]
    /\ ready = [w \in 0 .. (nw - 1) |-> NULL]
    /\ completed = [w \in 0 .. (nw - 1) |-> NULL]
    /\ path = [e \in 1 .. (nw * qd) |-> NoPath]
    /\ fd = [e \in 1 .. (nw * qd) |-> "none"]
    /\ shm_fp = [e \in 1 .. (nw * qd) |-> NoPath]
    /\ shm_lfd = [e \in 1 .. (nw * qd) |-> FALSE]
    /\ shm_lmapped = [e \in 1 .. (nw * qd) |-> FALSE]
    /\ shm_ldata = [e \in 1 .. (nw * qd) |-> "none"]
    /\ shm_wfd = [e \in 1 .. (nw * qd) |-> FALSE]
    /\ held = [e \in 1 .. (nw * qd) |-> 0]
    /\ outstanding = [w \in 0 .. (nw - 1) |-> 0]
    /\ inflight = [e \in 1 .. (nw * qd) |-> 0]
    /\ read_ok = [e \in 1 .. (nw * qd) |-> 0]
    /\ wrappers = [k \in 1 .. (nw * qd) |-> [key |-> 0, data |-> NULL]]
    /\ sortable = [k \in 1 .. (nw * qd) |-> k]
    /\ idle_iters = 0
    /\ n_queued = 0
    /\ size = [e \in 1 .. (nw * qd) |-> 0]
    /\ llen = [e \in 1 .. (nw * qd) |-> 0]
    /\ wlen = [e \in 1 .. (nw * qd) |-> 0]

Configs ==
    {c \in (1 .. MaxQueueDepth) \X (1 .. MaxWorkers) : c[1] * c[2] <= MaxEntries}

\* A run either accepts up to MaxRequests requests and meets no failing
\* system call other than open(), or accepts up to MaxFaultRequests requests
\* and meets up to MaxFaults of them.
Budgets == {<<MaxRequests, 0>>, <<MaxFaultRequests, MaxFaults>>}

Setup(c, b, d, t) ==
    /\ async_init(c[1], c[2])
    /\ dispatch_n = d[1]
    /\ max_idle_iters = d[2]
    /\ test = t
    /\ req_budget = b[1]
    /\ fault_budget = b[2]
    /\ shm_objs = {}
    /\ shm_len = <<>>
    /\ cq = <<>>
    /\ i = 0
    /\ cnt = 0
    /\ loader_up = TRUE
    /\ aborted = {}
    /\ faults = 0
    /\ nreq = 0
    /\ nsub = 0
    /\ ndeliv = 0
    /\ last = Op("init", 0, NULL, "")
    /\ lock = [l \in (0 .. (c[2] - 1)) \X {"free", "ready", "completed"} |->
                  NoProc]
    /\ pc = [p \in {Worker(w) : w \in 0 .. (c[2] - 1)} \cup {Reader, Responder}
                |-> Idle]

\* async_init has returned 0 and async_start runs both loops.
Running ==
    /\ init_status = 0
    /\ states = TRUE
    /\ ring_up = TRUE
    /\ reader_up = TRUE
    /\ responder_up = TRUE

\* The state in which the workers start: the loader is initialised and
\* started, and every file that exists has MaxFileSize bytes.
Boot(c, b, d, t) ==
    /\ Setup(c, b, d, t)
    /\ Running
    /\ st_size = MaxFileSize

\* Workers that do not run the test program.
NoTests(c) == [w \in 0 .. (c[2] - 1) |-> NoTest]

\* The direct loader keeps dispatch_n without using it; the test passes
\* queue_depth for it.
Init == \E c \in Configs, b \in Budgets : Boot(c, b, <<c[1], 0>>, NoTests(c))

\* --------------------------------------------------------- worker interface
\* async_try_request(state, path): pop free; none -> false; else copy the
\* path into the entry, push it onto ready, true.
async_try_request(w, p) ==
    /\ w \notin aborted
    /\ nreq < req_budget
    /\ LET r == fifo_pop(free[w], next, prev)
           e == r.out
       IN IF e = NULL
          THEN /\ last' = Op("try_request", w, NULL, "false")
               /\ UNCHANGED <<lists, path, ghost>>
          ELSE LET q == fifo_push(ready[w], r.next, r.prev, e)
               IN /\ free' = [free EXCEPT ![w] = r.head]
                  /\ ready' = [ready EXCEPT ![w] = q.head]
                  /\ next' = q.next
                  /\ prev' = q.prev
                  /\ path' = [path EXCEPT ![e] = StoredPath(path[e], p)]
                  /\ outstanding' = [outstanding EXCEPT ![w] = @ + 1]
                  /\ nreq' = nreq + 1
                  /\ last' = [op |-> "try_request", w |-> w, e |-> e,
                               ret |-> "true", arg |-> p]
                  /\ UNCHANGED <<completed, nsub, ndeliv, read_ok>>
    /\ UNCHANGED <<config, lifecycle, threads, fd, loader_shm, shm_wfd, shm_objs, ring, i,
                   responder, aborted, held, faults, reorder, sizes>>

\* async_try_get(state): completed empty -> NULL; else pop it, open the
\* shared-memory object (assert it opened), map it, return the entry.
async_try_get(w) ==
    /\ w \notin aborted
    /\ ndeliv < req_budget
    /\ IF completed[w] = NULL
       THEN /\ last' = Op("try_get", w, NULL, "null")
            /\ UNCHANGED <<lists, shm_wfd, wlen, held, aborted, ghost>>
       ELSE LET r == fifo_pop(completed[w], next, prev)
                e == r.out
            IN /\ completed' = [completed EXCEPT ![w] = r.head]
               /\ next' = r.next
               /\ prev' = r.prev
               /\ read_ok' = [read_ok EXCEPT ![e] = IF @ > 0 THEN @ - 1 ELSE 0]
               /\ UNCHANGED <<free, ready, outstanding, nreq, nsub>>
               /\ IF shm_fp[e] \in shm_objs
                  THEN /\ shm_wfd' = [shm_wfd EXCEPT ![e] = TRUE]
                       /\ wlen' = [wlen EXCEPT ![e] = size[e]]
                       /\ held' = [held EXCEPT ![e] = @ + 1]
                       /\ ndeliv' = ndeliv + 1
                       /\ last' = Op("try_get", w, e, "entry")
                       /\ UNCHANGED aborted
                  ELSE /\ aborted' = aborted \cup {w}
                       /\ last' = Op("try_get", w, e, "abort")
                       /\ UNCHANGED <<shm_wfd, wlen, held, ndeliv>>
    /\ UNCHANGED <<config, lifecycle, threads, path, fd, loader_shm, shm_objs, ring, i,
                   responder, faults, reorder, size, shm_len, llen>>

\* A release that unlinks and unmaps but leaves the entry off the free list.
async_release_nopush(e) ==
    /\ worker(e) \notin aborted
    /\ held[e] > 0
    /\ outstanding' = [outstanding EXCEPT ![worker(e)] = @ - 1]
    /\ last' = Op("release", worker(e), e, "")
    /\ shm_objs' = shm_objs \ {shm_fp[e]}
    /\ shm_len' = [n \in shm_objs \ {shm_fp[e]} |-> shm_len[n]]
    /\ shm_wfd' = [shm_wfd EXCEPT ![e] = FALSE]
    /\ wlen' = [wlen EXCEPT ![e] = 0]
    /\ held' = [held EXCEPT ![e] = @ - 1]
    /\ UNCHANGED <<config, lifecycle, threads, lists, path, fd, loader_shm, ring, i,
                   responder, aborted, faults, nreq, nsub, ndeliv, read_ok,
                   reorder, size, llen>>

\* async_release(e): unlink the object, close and unmap the worker side,
\* push the entry onto its owner's free list.
async_release(e) ==
    /\ worker(e) \notin aborted
    /\ held[e] > 0
    /\ LET w == worker(e)
           q == fifo_push(free[w], next, prev, e)
       IN /\ free' = [free EXCEPT ![w] = q.head]
          /\ next' = q.next
          /\ prev' = q.prev
          /\ outstanding' = [outstanding EXCEPT ![w] = @ - 1]
          /\ last' = Op("release", w, e, "")
    /\ shm_objs' = shm_objs \ {shm_fp[e]}
    /\ shm_len' = [n \in shm_objs \ {shm_fp[e]} |-> shm_len[n]]
    /\ shm_wfd' = [shm_wfd EXCEPT ![e] = FALSE]
    /\ wlen' = [wlen EXCEPT ![e] = 0]
    /\ held' = [held EXCEPT ![e] = @ - 1]
    /\ UNCHANGED <<config, lifecycle, threads, ready, completed, path, fd, loader_shm,
                   ring, i, responder, aborted, faults, nreq, nsub, ndeliv,
                   read_ok, reorder, size, llen>>

\* ------------------------------------------------------------------ loader
\* What the system calls of one async_perform_io(e) may do.  "open" is the
\* failure of open(); "shm_open" and "ftruncate" are injected failures of the
\* setup; "mmap" is an injected failure of mmap, which returns MAP_FAILED.
IoOutcomes(e) ==
    IF ~Exists(path[e]) THEN {"open"}
    ELSE {"ok"} \cup (IF faults < fault_budget
                      THEN {"shm_open", "ftruncate", "mmap"} ELSE {})

\* a | b on unsigned integers, bit by bit.
RECURSIVE BitOr(_, _)
BitOr(a, b) ==
    IF a = 0 THEN b
    ELSE IF b = 0 THEN a
    ELSE (IF a % 2 = 1 \/ b % 2 = 1 THEN 1 ELSE 0)
         + 2 * BitOr(a \div 2, b \div 2)

\* Rounding s up to the next multiple of the page size, which leaves whole
\* pages as they are.
RoundSizeUp(s) == ((s + PageMask) \div (PageMask + 1)) * (PageMask + 1)

\* e->size = (((size_t) size) | 0xFFF) + 1 for a file of s bytes (off_t is
\* at most 2^63 - 1, so the sum does not wrap in size_t).
RoundSize(s) == BitOr(s, PageMask) + 1

\* The lengths of the shared-memory objects once the objects of objs exist
\* and the one called name, if sized, has sz bytes.
Truncated(objs, name, sized, sz) ==
    [n \in objs |-> IF n = name /\ sized THEN sz ELSE shm_len[n]]

\* An unmapping that is done whether or not the slot is mapped.
Unmap_always(e) ==
    <<[call |-> "munmap", addr |-> shm_ldata[e], len |-> size[e]],
      [call |-> "close", fd |-> shm_lfd[e]]>>

\* The calls by which async_perform_io first unmaps the previous mapping of
\* the slot: if (e->shm_lmapped) { munmap(e->shm_ldata, e->size);
\* close(e->shm_lfd); }.
Unmap(e) ==
    IF shm_lmapped[e]
    THEN <<[call |-> "munmap", addr |-> shm_ldata[e], len |-> size[e]],
           [call |-> "close", fd |-> shm_lfd[e]]>>
    ELSE <<>>

\* async_perform_io(ld, e) of the direct loader, with the outcome of its
\* system calls given: the fields of e and the kernel objects afterwards, and
\* the status returned ("ok" = 0, otherwise negative).
async_perform_io(e, outcome) ==
    LET name == ShmName(path[e])
        submitted == outcome \in {"mmap", "ok"}
    IN [status |-> IF submitted THEN "ok" ELSE outcome,
        unmap |-> Unmap(e),
        fd |-> IF submitted THEN "open" ELSE "none",
        shm_fp |-> IF outcome = "open" THEN shm_fp[e] ELSE name,
        shm_lfd |-> submitted,
        shm_lmapped |-> submitted,
        shm_ldata |-> CASE outcome = "ok" -> "mapped"
                        [] outcome = "mmap" -> "MAP_FAILED"
                        [] OTHER -> "none",
        shm_objs |-> CASE submitted -> shm_objs \cup {name}
                       [] outcome = "ftruncate" -> shm_objs \ {name}
                       [] OTHER -> shm_objs,
        inflight |-> IF submitted THEN inflight[e] + 1 ELSE inflight[e],
        size |-> IF outcome = "open" THEN size[e] ELSE RoundSize(st_size),
        llen |-> IF outcome = "ok" THEN RoundSize(st_size) ELSE 0,
        shm_len |-> Truncated(CASE submitted -> shm_objs \cup {name}
                                [] outcome = "ftruncate" -> shm_objs \ {name}
                                [] OTHER -> shm_objs,
                              name, submitted, RoundSize(st_size))]

\* A reader that comes back to the queue it has just visited.
SameVisit(k) == k

\* wstate_t *st = &ld->states[i++ % ld->n_states]: the queue visited after
\* queue k.  i is a size_t that starts at 0; the model keeps it modulo
\* n_states, which is what the code computes as long as i has not wrapped
\* (2^64 iterations).
NextVisit(k) == (k + 1) % n_states

\* One iteration of async_reader_loop (direct loader): visit worker
\* i % n_states, pop its ready list, issue the IO, push the entry back onto
\* ready when that failed.
async_reader_loop ==
    /\ loader_up
    /\ reader_up
    /\ nsub < req_budget
    /\ i' = NextVisit(i)
    /\ LET w == i
           r == fifo_pop(ready[w], next, prev)
           e == r.out
       IN IF e = NULL
          THEN /\ last' = Op("reader", w, NULL, "empty")
               /\ UNCHANGED <<lists, fd, loader_shm, shm_objs, inflight, faults,
                              nsub, size, shm_len, llen>>
          ELSE \E outcome \in IoOutcomes(e) :
               LET io == async_perform_io(e, outcome)
                   q == IF io.status = "ok"
                        THEN [head |-> r.head, next |-> r.next, prev |-> r.prev]
                        ELSE fifo_push(r.head, r.next, r.prev, e)
               IN /\ ready' = [ready EXCEPT ![w] = q.head]
                  /\ next' = q.next
                  /\ prev' = q.prev
                  /\ fd' = [fd EXCEPT ![e] = io.fd]
                  /\ shm_fp' = [shm_fp EXCEPT ![e] = io.shm_fp]
                  /\ shm_lfd' = [shm_lfd EXCEPT ![e] = io.shm_lfd]
                  /\ shm_lmapped' = [shm_lmapped EXCEPT ![e] = io.shm_lmapped]
                  /\ shm_ldata' = [shm_ldata EXCEPT ![e] = io.shm_ldata]
                  /\ shm_objs' = io.shm_objs
                  /\ shm_len' = io.shm_len
                  /\ size' = [size EXCEPT ![e] = io.size]
                  /\ llen' = [llen EXCEPT ![e] = io.llen]
                  /\ inflight' = [inflight EXCEPT ![e] = io.inflight]
                  /\ faults' = IF outcome \in {"ok", "open"} THEN faults ELSE faults + 1
                  /\ nsub' = IF io.status = "ok" THEN nsub + 1 ELSE nsub
                  /\ last' = [op |-> "reader", w |-> w, e |-> e,
                               ret |-> io.status, unmap |-> io.unmap]
                  /\ UNCHANGED <<free, completed>>
    /\ UNCHANGED <<config, lifecycle, threads, path, shm_wfd, wlen, cq, responder,
                   aborted, held, outstanding, nreq, ndeliv, read_ok, reorder,
                   test>>

\* The kernel completes one submitted read.  A read into a MAP_FAILED buffer
\* fails; any other read succeeds, or fails by an injected I/O error.
KernelComplete(e) ==
    /\ loader_up
    /\ inflight[e] > 0
    /\ \E res \in (IF shm_ldata[e] = "MAP_FAILED" THEN {"err"}
                   ELSE {"ok"} \cup (IF faults < fault_budget THEN {"err"} ELSE {})) :
          /\ cq' = Append(cq, [e |-> e, res |-> res])
          /\ faults' = IF res = "err" /\ shm_ldata[e] # "MAP_FAILED"
                       THEN faults + 1 ELSE faults
          /\ last' = Op("complete", worker(e), e, res)
    /\ inflight' = [inflight EXCEPT ![e] = @ - 1]
    /\ UNCHANGED <<config, lifecycle, threads, lists, path, fd, loader_shm, shm_wfd,
                   shm_objs, i, responder, aborted, held, ghost, reorder, test,
                   sizes>>

\* One iteration of async_responder_loop: io_uring_wait_cqe returns the
\* oldest completion not yet marked seen.
async_responder_loop ==
    /\ loader_up
    /\ responder_up
    /\ cq # <<>>
    /\ LET c == Head(cq)
           e == c.e
       IN IF c.res = "err"
          THEN /\ cnt' = cnt + 1
               /\ loader_up' = ~(cnt > ErrLimit)
               /\ last' = Op("responder", worker(e), e,
                             IF cnt > ErrLimit THEN "exit" ELSE "failed")
               /\ UNCHANGED <<cq, fd, lists, read_ok>>
          ELSE LET q == fifo_push(completed[worker(e)], next, prev, e)
               IN /\ cq' = Tail(cq)
                  /\ fd' = [fd EXCEPT ![e] = "none"]
                  /\ completed' = [completed EXCEPT ![worker(e)] = q.head]
                  /\ next' = q.next
                  /\ prev' = q.prev
                  /\ read_ok' = [read_ok EXCEPT ![e] = @ + 1]
                  /\ last' = Op("responder", worker(e), e, "completed")
                  /\ UNCHANGED <<cnt, loader_up, free, ready>>
    /\ UNCHANGED <<config, lifecycle, threads, path, loader_shm, shm_wfd, shm_objs,
                   inflight, i, aborted, held, faults, outstanding, nreq, nsub,
                   ndeliv, reorder, test, sizes>>

\* ------------------------------------------------------------ specification
Next ==
    \/ \E w \in Workers, p \in Paths : async_try_request(w, p) /\ UNCHANGED test
    \/ \E w \in Workers : async_try_get(w) /\ UNCHANGED test
    \/ \E e \in Entries : async_release(e) /\ UNCHANGED test
    \/ async_reader_loop
    \/ \E e \in Entries : KernelComplete(e)
    \/ async_responder_loop

Spec == Init /\ [][Next]_vars

\* ------------------------------------------------------------ entry custody
B2N(b) == IF b THEN 1 ELSE 0

\* Completions of e waiting in the completion queue.
InCq(e) == Cardinality({k \in 1 .. Len(cq) : cq[k].e = e})

\* In how many places entry e is: its worker's three lists (reached from the
\* head by next), the ring (submitted or completed but not yet seen), and the
\* worker's hands (between try_get and release).
Places(e) ==
    B2N(e \in Members(free[worker(e)]))
    + B2N(e \in Members(ready[worker(e)]))
    + B2N(e \in Members(completed[worker(e)]))
    + inflight[e] + InCq(e) + held[e]

\* An entry consumed by the failed assert of try_get is in no place; its
\* worker has been ended.
Lost(e) == worker(e) \in aborted

\* C1: every entry is in exactly one of free, ready, completed, the loader's
\* custody or its worker's hands; none is on two lists, and the entries of a
\* worker add up to queue_depth.
ExactlyOnePlace == \A e \in Entries : Lost(e) \/ Places(e) = 1

\* C2: successful try_request calls minus release calls never exceed
\* queue_depth for any worker, so that once queue_depth requests are
\* outstanding a further try_request returns false until a release.
OutstandingBound == \A w \in Workers : outstanding[w] <= queue_depth

\* ------------------------------------------------- contracts of the calls
\* The list that starts at head under the links nx.
ListOf(head, nx) == Walk(head, nx, {})

\* The three lists of worker v hold the same entries in the same order before
\* and after the step.
SameLists(v) ==
    /\ ListOf(free'[v], next') = ListSeq(free[v])
    /\ ListOf(ready'[v], next') = ListSeq(ready[v])
    /\ ListOf(completed'[v], next') = ListSeq(completed[v])

\* No entry's descriptors, mappings or shared-memory object change, and the
\* ring is left alone.
SameResources ==
    UNCHANGED <<fd, loader_shm, shm_wfd, shm_objs, ring, held>>

\* C5: try_request returns false exactly when free is empty and then changes
\* nothing; when it returns true the head of free has become the tail of
\* ready with a path set, and nothing else has changed.
TryRequestContract ==
    [][last'.op = "try_request" =>
         LET w == last'.w
             e == free[w]
         IN /\ (last'.ret = "false") <=> (free[w] = NULL)
            /\ last'.ret = "false" =>
                  /\ \A v \in Workers : SameLists(v)
                  /\ path' = path
                  /\ SameResources
            /\ last'.ret = "true" =>
                  /\ last'.e = e
                  /\ ListOf(free'[w], next') = Tail(ListSeq(free[w]))
                  /\ ListOf(ready'[w], next') = Append(ListSeq(ready[w]), e)
                  /\ ListOf(completed'[w], next') = ListSeq(completed[w])
                  /\ \A v \in Workers \ {w} : SameLists(v)
                  /\ path'[e] # NoPath
                  /\ \A x \in Entries \ {e} : path'[x] = path[x]
                  /\ SameResources]_vars

\* C6: try_get returns null whenever completed is empty and then changes no
\* list, no entry and no worker-side descriptor; otherwise it takes the head
\* of completed and removes exactly that entry.
TryGetContract ==
    [][last'.op = "try_get" =>
         LET w == last'.w
         IN /\ completed[w] = NULL =>
                  /\ last'.ret = "null"
                  /\ \A v \in Workers : SameLists(v)
                  /\ path' = path
                  /\ SameResources
            /\ completed[w] # NULL =>
                  /\ last'.ret # "null"
                  /\ last'.e = completed[w]
                  /\ ListOf(completed'[w], next') = Tail(ListSeq(completed[w]))
                  /\ ListOf(free'[w], next') = ListSeq(free[w])
                  /\ ListOf(ready'[w], next') = ListSeq(ready[w])
                  /\ \A v \in Workers \ {w} : SameLists(v)]_vars

\* C7: an entry returned by try_get has a read that completed successfully
\* and was not yet taken; it is not on ready, not in flight, and its file
\* can be opened.
OnlyFinishedReads ==
    [][last'.op = "try_get" /\ last'.ret = "entry" =>
         LET e == last'.e
         IN /\ read_ok[e] > 0
            /\ Exists(path[e])
            /\ e \notin Members(ready[worker(e)])
            /\ inflight[e] = 0
            /\ InCq(e) = 0]_vars

\* C8: entries stay with their worker: the responder pushes onto the owner's
\* completed list, try_get(w) returns entries of w that carry a requested
\* path, release pushes onto the owner's free list (for reuse),
\* and none of the three touches another worker's lists.
NoMigration ==
    [][/\ last'.op = "responder" /\ last'.ret = "completed" =>
            /\ last'.w = worker(last'.e)
            /\ last'.e \in Range(ListOf(completed'[last'.w], next'))
            /\ \A v \in Workers \ {last'.w} : SameLists(v)
       /\ last'.op = "try_get" /\ last'.ret = "entry" =>
            /\ last'.w = worker(last'.e)
            /\ path[last'.e] # NoPath
            /\ \A v \in Workers \ {last'.w} : SameLists(v)
       /\ last'.op = "release" =>
            /\ last'.w = worker(last'.e)
            /\ last'.e \in Range(ListOf(free'[last'.w], next'))
            /\ \A v \in Workers \ {last'.w} : SameLists(v)]_vars

\* C9: every failed open puts the entry back on its worker's ready list and
\* leaves no descriptor, no shared-memory object and no submission behind;
\* the entry is then neither on completed nor on free, nor held.
OpenFailureRequeues ==
    [][last'.op = "reader" /\ last'.ret = "open" =>
         LET e == last'.e
             w == last'.w
         IN /\ worker(e) = w
            /\ e \in Range(ListOf(ready'[w], next'))
            /\ e \notin Range(ListOf(completed'[w], next'))
            /\ e \notin Range(ListOf(free'[w], next'))
            /\ held'[e] = 0
            /\ fd'[e] = "none"
            /\ shm_lfd'[e] = FALSE
            /\ shm_objs' = shm_objs
            /\ ring' = ring]_vars

\* --------------------------------------------- workers that follow the rules
\* Workers must not request a path whose shared-memory name is in use by a
\* live entry.  These workers never request a path that some entry still
\* carries, so that no two entries ever derive the same name.
MaxLiveRequests == 3
OtherPath == <<"a">>
LivePaths == {GoodPath, OtherPath, MissingPath}
LiveNames == {ShmName(path[e]) : e \in Entries}

DistinctRequest(w, p) ==
    /\ ShmName(StoredPath(NoPath, p)) \notin LiveNames
    /\ async_try_request(w, p)
    /\ UNCHANGED test

InitLive ==
    \E c \in Configs : Boot(c, <<MaxLiveRequests, 0>>, <<c[1], 0>>, NoTests(c))

NextLive ==
    \/ \E w \in Workers, p \in LivePaths : DistinctRequest(w, p)
    \/ \E w \in Workers : async_try_get(w) /\ UNCHANGED test
    \/ \E e \in Entries : async_release(e) /\ UNCHANGED test
    \/ async_reader_loop
    \/ \E e \in Entries : KernelComplete(e)
    \/ async_responder_loop

\* The reader and the responder are threads that loop forever, the kernel
\* completes every submitted read, and a worker waiting for an entry spins on
\* try_get.
Fairness ==
    /\ WF_vars(async_reader_loop)
    /\ WF_vars(async_responder_loop)
    /\ \A e \in 1 .. MaxEntries : WF_vars(e \in Entries /\ KernelComplete(e))
    /\ \A w \in 0 .. (MaxWorkers - 1) :
          WF_vars(w \in Workers /\ async_try_get(w) /\ UNCHANGED test)

SpecLive == InitLive /\ [][NextLive]_vars /\ Fairness

\* The run has used up the submissions or deliveries it allows, so that the
\* reader or try_get no longer act in it.
BudgetSpent == nsub >= req_budget \/ ndeliv >= req_budget

Requested(e) ==
    /\ e \in Entries
    /\ last.op = "try_request" /\ last.e = e /\ last.ret = "true"
    /\ Exists(path[e])
Served(e) == e \in Entries /\ last.op = "try_get" /\ last.e = e /\ last.ret = "entry"

\* C3: an accepted request for a file that can be opened and read is
\* eventually returned by try_get on that worker, under fair scheduling of the
\* reader, the responder and the kernel (in runs that stay within their
\* budget of submissions and deliveries).
EventuallyServed ==
    \A e \in 1 .. MaxEntries : Requested(e) ~> (Served(e) \/ BudgetSpent)

\* ------------------------------------------------------- the test program
\* main() of the test: four files that exist, with pairwise distinct names.
filepaths == <<<<"M">>, <<"t">>, <<"t", ".", "c">>, <<"t", ".", "o">>>>

MaxTestOps == 6

\* test_config starts every worker in test_worker_loop with fp_per_worker
\* files, and the loader.
InitTest ==
    \E c \in Configs, k \in 1 .. MaxQueueDepth :
        /\ k <= c[1]
        /\ k * c[2] <= Len(filepaths)
        /\ Boot(c, <<MaxTestOps, 0>>, <<c[1], 0>>,
                [w \in 0 .. (c[2] - 1) |->
                    [pc |-> "request", i |-> 0, n_filepaths |-> k, entries |-> <<>>]])

\* First loop of test_worker_loop: while (!async_try_request(..)) {} for each
\* of the worker's files.
TestRequest(w) ==
    /\ test[w].pc = "request"
    /\ async_try_request(w, filepaths[test[w].n_filepaths * w + test[w].i + 1])
    /\ test' = [test EXCEPT ![w] =
                   IF last'.ret # "true" THEN @
                   ELSE IF @.i + 1 = @.n_filepaths
                        THEN [@ EXCEPT !.pc = "get", !.i = 0]
                        ELSE [@ EXCEPT !.i = @ + 1]]

\* Second loop: while ((entries[i] = async_try_get(worker)) == NULL) {}.
TestGet(w) ==
    /\ test[w].pc = "get"
    /\ async_try_get(w)
    /\ test' = [test EXCEPT ![w] =
                   CASE last'.ret = "null" -> @
                     [] last'.ret = "abort" -> [@ EXCEPT !.pc = "aborted"]
                     [] OTHER ->
                        IF @.i + 1 = @.n_filepaths
                        THEN [@ EXCEPT !.pc = "release", !.i = 0,
                                       !.entries = Append(@, last'.e)]
                        ELSE [@ EXCEPT !.i = @ + 1,
                                       !.entries = Append(@, last'.e)]]

\* Third loop: async_release(entries[i]); the worker then exits.
TestRelease(w) ==
    /\ test[w].pc = "release"
    /\ async_release(test[w].entries[test[w].i + 1])
    /\ test' = [test EXCEPT ![w] =
                   IF @.i + 1 = @.n_filepaths
                   THEN [@ EXCEPT !.pc = "done", !.i = 0]
                   ELSE [@ EXCEPT !.i = @ + 1]]

NextTest ==
    \/ \E w \in Workers : TestRequest(w)
    \/ \E w \in Workers : TestGet(w)
    \/ \E w \in Workers : TestRelease(w)
    \/ async_reader_loop
    \/ \E e \in Entries : KernelComplete(e)
    \/ async_responder_loop

\* Every process and thread keeps running, and the kernel completes every
\* submitted read.
FairnessTest ==
    /\ WF_vars(async_reader_loop)
    /\ WF_vars(async_responder_loop)
    /\ \A e \in 1 .. MaxEntries : WF_vars(e \in Entries /\ KernelComplete(e))
    /\ \A w \in 0 .. (MaxWorkers - 1) :
          WF_vars(w \in Workers /\ (TestRequest(w) \/ TestGet(w) \/ TestRelease(w)))

SpecTest == InitTest /\ [][NextTest]_vars /\ FairnessTest

\* Worker w has left test_worker_loop with n_filepaths distinct entries of
\* its own, one per file it requested.
TestWorkerDone(w) ==
    /\ test[w].pc = "done"
    /\ Len(test[w].entries) = test[w].n_filepaths
    /\ Cardinality(Range(test[w].entries)) = test[w].n_filepaths
    /\ \A k \in 1 .. Len(test[w].entries) : worker(test[w].entries[k]) = w
    /\ {path[e] : e \in Range(test[w].entries)}
         = {filepaths[test[w].n_filepaths * w + k] : k \in 1 .. test[w].n_filepaths}

\* All entries of worker w are on its free list, and nowhere else.
AllFree(w) ==
    /\ Members(free[w]) = {e \in Entries : worker(e) = w}
    /\ Len(ListSeq(free[w])) = queue_depth
    /\ ready[w] = NULL
    /\ completed[w] = NULL
    /\ \A e \in Entries : inflight[e] = 0 /\ held[e] = 0
    /\ cq = <<>>

\* C4: with one or two workers each requesting k <= queue_depth distinct
\* existing files, every worker terminates with its k distinct entries and
\* all entries end on free; the loader does not deadlock (in runs that stay
\* within their budget of submissions and deliveries).
TestCompletes ==
    <>(BudgetSpent \/ \A w \in Workers : TestWorkerDone(w) /\ AllFree(w))

\* ------------------------------------------------------ the reorder loader
SMALL_N == 16
MaxDispatchN == 2
MaxIdleIters == 1
MaxLba == 1
MaxReorderRequests == 3

\* sortable_t.key of the wrapper that pointer p names.
Key(p) == wrappers[p].key

\* memcpy(&to_sort[j + 1], &to_sort[j], (i - j) pointers): the regions
\* overlap when i - j >= 2, so the copy either behaves like memmove or, when
\* done front to back, repeats to_sort[j].
MemcpyModes == {"memmove", "forward"}
memcpy_shift(a, j, ii, mode) ==
    SubSeq(a, 1, j)
    \o (IF mode = "forward" THEN [k \in 1 .. (ii - j) |-> a[j]]
                            ELSE SubSeq(a, j, ii - 1))
    \o SubSeq(a, ii + 1, Len(a))

\* One round of the outer loop of sort_small: insert a[ii] into a[1 .. ii-1].
\* The inner loop scans j downwards and stops at the first j that fits.
sort_small_insert(a, ii, mode) ==
    LET elem == a[ii]
        fits == {j \in 1 .. (ii - 1) :
                    /\ Key(elem) <= Key(a[j])
                    /\ (j = 1 \/ Key(elem) > Key(a[j - 1]))}
    IN IF fits = {} THEN a
       ELSE LET j == CHOOSE x \in fits : \A y \in fits : y <= x
            IN [memcpy_shift(a, j, ii, mode) EXCEPT ![j] = elem]

RECURSIVE sort_small_from(_, _, _)
sort_small_from(a, ii, mode) ==
    IF ii > Len(a) THEN a
    ELSE sort_small_from(sort_small_insert(a, ii, mode), ii + 1, mode)

sort_small(a, mode) == sort_small_from(a, 2, mode)

RECURSIVE merge(_, _)
merge(left, right) ==
    IF left = <<>> THEN right
    ELSE IF right = <<>> THEN left
    ELSE IF Key(Head(left)) <= Key(Head(right))
         THEN <<Head(left)>> \o merge(Tail(left), right)
         ELSE <<Head(right)>> \o merge(left, Tail(right))

\* sort(to_sort, n) on the sequence a of the n pointers.
RECURSIVE sort(_, _)
sort(a, mode) ==
    IF Len(a) < SMALL_N THEN sort_small(a, mode)
    ELSE LET n_left == Len(a) \div 2
         IN merge(sort(SubSeq(a, 1, n_left), mode),
                  sort(SubSeq(a, n_left + 1, Len(a)), mode))

\* What the reader reads and writes while it issues a batch.
ReaderState ==
    [ready |-> ready, next |-> next, prev |-> prev, fd |-> fd,
     shm_fp |-> shm_fp, shm_lfd |-> shm_lfd, shm_lmapped |-> shm_lmapped,
     shm_ldata |-> shm_ldata, shm_objs |-> shm_objs, inflight |-> inflight,
     faults |-> faults, nsub |-> nsub, size |-> size, shm_len |-> shm_len,
     llen |-> llen]

\* What the system calls of async_perform_io may do in the reorder loader,
\* where the file is already open.
ReorderOutcomes(st) ==
    {"ok"} \cup (IF st.faults < fault_budget
                 THEN {"fstat", "shm_open", "ftruncate", "mmap"} ELSE {})

\* async_perform_io(ld, e) of the reorder loader followed by what the reader
\* does with its status: on failure close(e->fd) and push e onto the ready
\* list of e->worker.
IssueOne(st, e, outcome) ==
    LET name == ShmName(path[e])
        submitted == outcome \in {"mmap", "ok"}
        w == worker(e)
        q == IF submitted
             THEN [head |-> st.ready[w], next |-> st.next, prev |-> st.prev]
             ELSE fifo_push(st.ready[w], st.next, st.prev, e)
    IN [ready |-> [st.ready EXCEPT ![w] = q.head],
        next |-> q.next,
        prev |-> q.prev,
        fd |-> [st.fd EXCEPT ![e] = IF submitted THEN @ ELSE "none"],
        shm_fp |-> [st.shm_fp EXCEPT ![e] = IF outcome = "fstat" THEN @ ELSE name],
        shm_lfd |-> [st.shm_lfd EXCEPT ![e] = submitted],
        shm_lmapped |-> [st.shm_lmapped EXCEPT ![e] = submitted],
        shm_ldata |-> [st.shm_ldata EXCEPT ![e] =
                          CASE outcome = "ok" -> "mapped"
                            [] outcome = "mmap" -> "MAP_FAILED"
                            [] OTHER -> "none"],
        shm_objs |-> CASE submitted -> st.shm_objs \cup {name}
                       [] outcome = "ftruncate" -> st.shm_objs \ {name}
                       [] OTHER -> st.shm_objs,
        inflight |-> [st.inflight EXCEPT ![e] = IF submitted THEN @ + 1 ELSE @],
        faults |-> IF outcome = "ok" THEN st.faults ELSE st.faults + 1,
        nsub |-> IF submitted THEN st.nsub + 1 ELSE st.nsub,
        size |-> [st.size EXCEPT ![e] =
                     IF outcome = "fstat" THEN @ ELSE RoundSize(st_size)],
        llen |-> [st.llen EXCEPT ![e] =
                     IF outcome = "ok" THEN RoundSize(st_size) ELSE 0],
        shm_len |-> LET objs == CASE submitted -> st.shm_objs \cup {name}
                                  [] outcome = "ftruncate" -> st.shm_objs \ {name}
                                  [] OTHER -> st.shm_objs
                    IN [n \in objs |-> IF n = name /\ submitted
                                       THEN RoundSize(st_size)
                                       ELSE st.shm_len[n]]]

\* The states the reader may be in after issuing the IO of the entries of
\* todo, in order.
RECURSIVE Dispatch(_, _)
Dispatch(st, todo) ==
    IF todo = <<>> THEN {st}
    ELSE UNION {Dispatch(IssueOne(st, Head(todo), o), Tail(todo)) :
                    o \in ReorderOutcomes(st)}

\* What one iteration of the reorder reader did: the worker it visited, the
\* entry it popped, whether the submission test fired, the entries it issued
\* in order, and how often it called io_uring_submit.
ReaderOp(w, e, ret, trigger, todo) ==
    [op |-> "reader", w |-> w, e |-> e, ret |-> ret, trigger |-> trigger,
     batch |-> todo, submits |-> IF trigger THEN 1 ELSE 0]

\* One iteration of async_reader_loop (reorder loader): when the LBA queue
\* is full or the reader has idled long enough, sort the queue and issue
\* it; then visit worker i % n_states, pop its ready list, open the file and
\* stage the entry.
\* When every wrapper is taken, ld->sortable[ld->n_queued++] reads past the
\* pointer array, the last region of the loader's mapping: the count is
\* stored, and the write through what was read there ends the loader.
async_reader_loop_reorder ==
    /\ loader_up
    /\ reader_up
    /\ nsub < req_budget
    /\ i' = NextVisit(i)
    /\ \E mode \in MemcpyModes :
       LET trigger == \/ n_queued = dispatch_n
                      \/ idle_iters > max_idle_iters * n_states
           sorted == IF trigger
                     THEN sort(SubSeq(sortable, 1, n_queued), mode)
                          \o SubSeq(sortable, n_queued + 1, Len(sortable))
                     ELSE sortable
           todo == IF trigger
                   THEN [k \in 1 .. n_queued |-> wrappers[sorted[k]].data]
                   ELSE <<>>
           nq == IF trigger THEN 0 ELSE n_queued
           idle == IF trigger THEN 0 ELSE idle_iters
       IN \E d \in Dispatch(ReaderState, todo) :
          LET w == i
              r == fifo_pop(d.ready[w], d.next, d.prev)
              e == r.out
              q == IF e # NULL /\ ~Exists(path[e])
                   THEN fifo_push(r.head, r.next, r.prev, e)
                   ELSE [head |-> r.head, next |-> r.next, prev |-> r.prev]
          IN /\ ready' = [d.ready EXCEPT ![w] = q.head]
             /\ next' = q.next
             /\ prev' = q.prev
             /\ shm_fp' = d.shm_fp
             /\ shm_lfd' = d.shm_lfd
             /\ shm_lmapped' = d.shm_lmapped
             /\ shm_ldata' = d.shm_ldata
             /\ shm_objs' = d.shm_objs
             /\ shm_len' = d.shm_len
             /\ size' = d.size
             /\ llen' = d.llen
             /\ inflight' = d.inflight
             /\ faults' = d.faults
             /\ nsub' = d.nsub
             /\ sortable' = sorted
             /\ IF e = NULL
                THEN /\ idle_iters' = IF nq > 0 THEN idle + 1 ELSE idle
                     /\ n_queued' = nq
                     /\ fd' = d.fd
                     /\ wrappers' = wrappers
                     /\ last' = ReaderOp(w, NULL,
                                         IF trigger THEN "issued" ELSE "empty",
                                         trigger, todo)
                ELSE IF ~Exists(path[e])
                THEN /\ idle_iters' = 0
                     /\ n_queued' = nq
                     /\ fd' = [d.fd EXCEPT ![e] = "none"]
                     /\ wrappers' = wrappers
                     /\ last' = ReaderOp(w, e, "open", trigger, todo)
                ELSE IF nq >= Len(sorted)
                THEN /\ idle_iters' = 0
                     /\ n_queued' = nq + 1
                     /\ fd' = [d.fd EXCEPT ![e] = "open"]
                     /\ wrappers' = wrappers
                     /\ last' = ReaderOp(w, e, "overflow", trigger, todo)
                ELSE \E key \in 0 .. MaxLba :
                     /\ idle_iters' = 0
                     /\ n_queued' = nq + 1
                     /\ fd' = [d.fd EXCEPT ![e] = "open"]
                     /\ wrappers' = [wrappers EXCEPT ![sorted[nq + 1]] =
                                        [key |-> key, data |-> e]]
                     /\ last' = ReaderOp(w, e, "staged", trigger, todo)
             /\ loader_up' = (e = NULL \/ ~Exists(path[e]) \/ nq < Len(sorted))
    /\ UNCHANGED <<config, lifecycle, threads, free, completed, path, shm_wfd, wlen, cq,
                   cnt, aborted, held, outstanding, nreq, ndeliv, read_ok,
                   test>>

\* Queue depths for which async_init links every entry to its neighbours
\* (the index of the predecessor of entry 0 is queue_depth - 1).
WellLinked(qd) == SizeTMod(0 - 1, qd) = qd - 1

InitReorder ==
    \E c \in {x \in Configs : WellLinked(x[1])},
       dn \in 1 .. MaxDispatchN, mi \in 0 .. MaxIdleIters :
        Boot(c, <<MaxReorderRequests, 0>>, <<dn, mi>>, NoTests(c))

NextReorder ==
    \/ \E w \in Workers, p \in Paths : async_try_request(w, p) /\ UNCHANGED test
    \/ \E w \in Workers : async_try_get(w) /\ UNCHANGED test
    \/ \E e \in Entries : async_release(e) /\ UNCHANGED test
    \/ async_reader_loop_reorder
    \/ \E e \in Entries : KernelComplete(e)
    \/ async_responder_loop

\* The reader and the responder loop forever and the kernel completes every
\* submitted read.
FairnessReorder ==
    /\ WF_vars(async_reader_loop_reorder)
    /\ WF_vars(async_responder_loop)
    /\ \A e \in 1 .. MaxEntries : WF_vars(e \in Entries /\ KernelComplete(e))

SpecReorder == InitReorder /\ [][NextReorder]_vars /\ FairnessReorder

\* Entry e is staged in the LBA sorting queue.
StagedEntries == {wrappers[sortable[k]].data : k \in 1 .. n_queued}
IsStaged(e) == e \in Entries /\ e \in StagedEntries
NotStaged(e) == e \in Entries /\ e \notin StagedEntries

\* C10: with reordering, every request staged in the reorder buffer is
\* eventually issued to the ring, whatever the other entries on the ready
\* lists do (in runs that stay within their budget of submissions and
\* deliveries).
StagedEventuallySubmitted ==
    \A e \in 1 .. MaxEntries :
        IsStaged(e) ~> (NotStaged(e) \/ BudgetSpent)

\* ------------------------------------------------------- reorder batches
\* The reorder loader with MaxBatch queues of one entry each, so that up to
\* MaxBatch requests are staged at once.
MaxBatch == 3
MaxBatchRequests == 3

InitBatch ==
    \E dn \in 1 .. MaxBatch, mi \in 0 .. MaxIdleIters :
        Boot(<<1, MaxBatch>>, <<MaxBatchRequests, 0>>, <<dn, mi>>,
             NoTests(<<1, MaxBatch>>))

\* The workers request files that exist.
NextBatch ==
    \/ \E w \in Workers : async_try_request(w, GoodPath) /\ UNCHANGED test
    \/ \E w \in Workers : async_try_get(w) /\ UNCHANGED test
    \/ \E e \in Entries : async_release(e) /\ UNCHANGED test
    \/ async_reader_loop_reorder
    \/ \E e \in Entries : KernelComplete(e)
    \/ async_responder_loop

SpecBatch == InitBatch /\ [][NextBatch]_vars

\* The submission test at the top of the reader's loop.
SubmitTest ==
    \/ n_queued = dispatch_n
    \/ idle_iters > max_idle_iters * n_states

\* A step of the reorder reader.
ReaderStep == last'.op = "reader" /\ "batch" \in DOMAIN last'

\* C11: the reorder reader submits staged requests only when the staged
\* count equals dispatch_n or the idle counter has passed
\* max_idle_iters * n_states; at such a trigger every staged request is
\* processed, io_uring_submit is called once for the batch, and the staged
\* count and the idle counter restart from 0.
SubmitOnlyAtTrigger ==
    [][ReaderStep =>
        IF SubmitTest
        THEN /\ StagedEntries \subseteq Range(last'.batch)
             /\ Len(last'.batch) = n_queued
             /\ last'.submits = 1
             /\ n_queued' = IF last'.ret = "staged" THEN 1 ELSE 0
             /\ idle_iters' = 0
        ELSE /\ last'.batch = <<>>
             /\ last'.submits = 0
             /\ inflight' = inflight
             /\ nsub' = nsub
             /\ StagedEntries \subseteq StagedEntries']_vars

\* C12: at each trigger the staged entries are prepared in non-decreasing
\* order of their lba keys, each exactly once, in the first batch and in the
\* later ones that start from the permuted pointer array.
BatchInKeyOrder ==
    [][(ReaderStep /\ SubmitTest) =>
        /\ \A k \in 1 .. (n_queued - 1) :
              Key(sortable'[k]) <= Key(sortable'[k + 1])
        /\ {sortable'[k] : k \in 1 .. n_queued}
              = {sortable[k] : k \in 1 .. n_queued}
        /\ last'.batch = [k \in 1 .. n_queued |-> wrappers[sortable'[k]].data]
        /\ Cardinality(Range(last'.batch)) = n_queued
        /\ Range(last'.batch) = StagedEntries]_vars

\* ------------------------------------------------------------ file sizes
\* One worker with one entry reads files of every size up to MaxFileSize.
MaxSizeRequests == 2

InitSize ==
    \E s \in 0 .. MaxFileSize :
        /\ Setup(<<1, 1>>, <<MaxSizeRequests, 0>>, <<1, 0>>, NoTests(<<1, 1>>))
        /\ Running
        /\ st_size = s

SpecSize == InitSize /\ [][Next]_vars

\* The reader has computed e->size and the name of the object of e.
Sized(e) == shm_fp[e] # NoPath

MaxOverlong == 2
MaxPathRequests == 3

PathOfLen(n) == [k \in 1 .. n |-> IF k % 2 = 0 THEN "/" ELSE "p"]
LongPaths ==
    {PathOfLen(n) : n \in (MAX_PATH_LEN - 1) .. (MAX_PATH_LEN + MaxOverlong)}
    \cup {GoodPath}

InitPath ==
    Boot(<<1, 1>>, <<MaxPathRequests, 0>>, <<1, 0>>, NoTests(<<1, 1>>))

NextPath ==
    \/ \E w \in Workers, p \in LongPaths :
          async_try_request(w, p) /\ UNCHANGED test
    \/ \E w \in Workers : async_try_get(w) /\ UNCHANGED test
    \/ \E e \in Entries : async_release(e) /\ UNCHANGED test
    \/ async_reader_loop
    \/ \E e \in Entries : KernelComplete(e)
    \/ async_responder_loop

SpecPath == InitPath /\ [][NextPath]_vars

\* C15: try_request stores the path whole when it has at most MAX_PATH_LEN
\* bytes and its first MAX_PATH_LEN bytes otherwise, NUL-terminated, whatever
\* the entry held before; the name of the object is '/' followed by the
\* stored path with every '/' turned into '_', and fits, with its NUL, in
\* MAX_PATH_LEN + 2 bytes.
PathStoredTruncated ==
    [][/\ (last'.op = "try_request" /\ last'.ret = "true") =>
              /\ path'[last'.e] = SubSeq(last'.arg, 1,
                                         Min(Len(last'.arg), MAX_PATH_LEN))
              /\ NUL \notin Range(path'[last'.e])
              /\ Len(path'[last'.e]) + 1 <= MAX_PATH_LEN + 1
       /\ (last'.op = "reader" /\ last'.ret = "ok") =>
              LET stored == path[last'.e]
                  name == shm_fp'[last'.e]
              IN /\ Len(name) = Len(stored) + 1
                 /\ name[1] = "/"
                 /\ \A k \in 1 .. Len(stored) :
                       name[k + 1] = IF stored[k] = "/" THEN "_" ELSE stored[k]
                 /\ Len(name) + 1 <= MAX_PATH_LEN + 2]_vars

\* The entry held the name of a path of MAX_PATH_LEN bytes or more and has
\* now been given the short path.
PathStoredTruncatedWitness ==
    /\ last.op = "try_request"
    /\ last.ret = "true"
    /\ last.arg = GoodPath
    /\ path[last.e] = GoodPath
    /\ Len(shm_fp[last.e]) = MAX_PATH_LEN + 1

\* ------------------------------------------------------ queues of depth 1
\* Every worker has a single entry and asks for a file of its own that
\* exists; it may call try_request and try_get at any time and releases what
\* it holds.
MaxPingRequests == 3

PingPath(w) == <<"d", "/">> \o [k \in 1 .. (w + 1) |-> "b"]

InitPing ==
    \E nw \in 1 .. MaxWorkers :
        Boot(<<1, nw>>, <<MaxPingRequests, 0>>, <<1, 0>>, NoTests(<<1, nw>>))

NextPing ==
    \/ \E w \in Workers : async_try_request(w, PingPath(w)) /\ UNCHANGED test
    \/ \E w \in Workers : async_try_get(w) /\ UNCHANGED test
    \/ \E e \in Entries : async_release(e) /\ UNCHANGED test
    \/ async_reader_loop
    \/ \E e \in Entries : KernelComplete(e)
    \/ async_responder_loop

\* The loader's threads loop forever, the kernel completes every read, and
\* the worker keeps calling try_get and releases the entry it got.
FairnessPing ==
    /\ WF_vars(async_reader_loop)
    /\ WF_vars(async_responder_loop)
    /\ \A e \in 1 .. MaxEntries : WF_vars(e \in Entries /\ KernelComplete(e))
    /\ \A w \in 0 .. (MaxWorkers - 1) :
          WF_vars(w \in Workers /\ async_try_get(w) /\ UNCHANGED test)
    /\ \A e \in 1 .. MaxEntries :
          WF_vars(e \in Entries /\ async_release(e) /\ UNCHANGED test)

SpecPing == InitPing /\ [][NextPing]_vars /\ FairnessPing

\* The entry e is back on the free list of its worker, not held.
Released(e) == e \in Entries /\ held[e] = 0 /\ free[worker(e)] = e

\* C16: with queue_depth = 1 a worker that requests, gets and releases
\* completes every round under fair scheduling: an accepted request is
\* returned by try_get and released; try_request returns true when the
\* worker has no request outstanding (at the start and after each release)
\* and false between an accepted request and its release.
DepthOneRounds ==
    /\ [][last'.op = "try_request" =>
             (last'.ret = "true" <=> outstanding[last'.w] = 0)]_vars
    /\ \A e \in 1 .. MaxEntries :
          Requested(e) ~> (Served(e) \/ BudgetSpent)
    /\ \A e \in 1 .. MaxEntries :
          Served(e) ~> Released(e)

\* A worker's second request has been accepted, after a full first round.
DepthOneRoundsWitness ==
    /\ queue_depth = 1
    /\ last.op = "try_request"
    /\ last.ret = "true"
    /\ ndeliv >= 1
    /\ outstanding[last.w] = 1
    /\ \E e \in Entries : worker(e) = last.w /\ read_ok[e] = 0 /\ held[e] = 0

\* ------------------------------------------------------ init and start
\* The loader process from before async_init up to the running loops.  The
\* queues are shown as async_init lays them out; nobody touches them before
\* it has returned 0.
MaxStartRequests == 2

\* What mmap_alloc may return: NULL or the address of the mapping.
MmapAllocResults == {NULL, 1}
\* What io_uring_queue_init may return: 0 or a negative errno.
RingStatuses == {0, 0 - ENOMEM, 0 - EAGAIN}
\* What pthread_create may return: 0 or an error number.
PthreadStatuses == {0, EAGAIN}

InitStart ==
    \E c \in Configs :
        /\ Setup(c, <<MaxStartRequests, 0>>, <<c[1], 0>>, NoTests(c))
        /\ init_status = NotCalled
        /\ states = FALSE
        /\ ring_up = FALSE
        /\ reader_up = FALSE
        /\ responder_up = FALSE
        /\ st_size = MaxFileSize

\* async_init that keeps the queue mapping when the ring cannot be set up.
async_init_leak(alloc, ring_status) ==
    /\ init_status = NotCalled
    /\ states' = (alloc # NULL)
    /\ ring_up' = (alloc # NULL /\ ring_status >= 0)
    /\ init_status' = IF alloc = NULL THEN 0 - ENOMEM ELSE ring_status
    /\ last' = [op |-> "async_init", w |-> 0, e |-> NULL,
                ret |-> IF alloc = NULL THEN 0 - ENOMEM ELSE ring_status,
                alloc |-> alloc, ring |-> ring_status]
    /\ UNCHANGED <<threads,
                   queue_depth, n_states, req_budget, fault_budget, dispatch_n,
                   max_idle_iters, st_size, lists, path, fd, loader_shm,
                   shm_wfd, shm_objs, ring, i, responder, aborted, held,
                   faults, ghost, reorder, test, sizes, reader_up,
                   responder_up>>

\* async_init(loader, ...): allocate the queue mapping (NULL: return
\* -ENOMEM), lay out the queues, set up the ring (negative status: free the
\* mapping and return the status), return 0.
async_init_call(alloc, ring_status) ==
    /\ init_status = NotCalled
    /\ states' = (alloc # NULL /\ ring_status >= 0)
    /\ ring_up' = (alloc # NULL /\ ring_status >= 0)
    /\ init_status' = IF alloc = NULL THEN 0 - ENOMEM ELSE ring_status
    /\ last' = [op |-> "async_init", w |-> 0, e |-> NULL,
                ret |-> IF alloc = NULL THEN 0 - ENOMEM ELSE ring_status,
                alloc |-> alloc, ring |-> ring_status]
    /\ UNCHANGED <<threads,
                   queue_depth, n_states, req_budget, fault_budget, dispatch_n,
                   max_idle_iters, st_size, lists, path, fd, loader_shm,
                   shm_wfd, shm_objs, ring, i, responder, aborted, held,
                   faults, ghost, reorder, test, sizes, reader_up,
                   responder_up>>

\* async_start(loader): pthread_create the reader; when its status is
\* negative, assert(false); then become the responder.
async_start(status) ==
    /\ init_status = 0
    /\ loader_up
    /\ ~responder_up
    /\ reader_up' = (status = 0)
    /\ IF status < 0
       THEN loader_up' = FALSE /\ UNCHANGED responder_up
       ELSE responder_up' = TRUE /\ UNCHANGED loader_up
    /\ last' = Op("async_start", 0, NULL, status)
    /\ UNCHANGED <<threads,
                   queue_depth, n_states, req_budget, fault_budget, dispatch_n,
                   max_idle_iters, st_size, lists, path, fd, loader_shm,
                   shm_wfd, shm_objs, ring, i, cnt, aborted, held, faults,
                   ghost, reorder, test, sizes, init_status, states, ring_up>>

NextStart ==
    \/ \E alloc \in MmapAllocResults, ring_status \in RingStatuses :
          async_init_call(alloc, ring_status)
    \/ \E status \in PthreadStatuses : async_start(status)
    \/ \E w \in Workers, p \in Paths :
          init_status = 0 /\ async_try_request(w, p) /\ UNCHANGED test
    \/ \E w \in Workers : init_status = 0 /\ async_try_get(w) /\ UNCHANGED test
    \/ \E e \in Entries : init_status = 0 /\ async_release(e) /\ UNCHANGED test
    \/ async_reader_loop
    \/ \E e \in Entries : KernelComplete(e)
    \/ async_responder_loop

SpecStart == InitStart /\ [][NextStart]_vars

\* C17: async_start does not return: it spawns the reader and runs the
\* responder loop; when the reader cannot be spawned it aborts, so the
\* responder never runs without a reader.
ResponderHasReader == responder_up => reader_up

\* C18: async_init returns 0 only when the queue mapping and the ring are
\* set up, -ENOMEM when the mapping cannot be allocated and the ring's
\* negative status when the ring cannot be set up; after a failed init no
\* queue mapping is left allocated.
InitStatusContract ==
    /\ init_status = 0 => (states /\ ring_up)
    /\ init_status \notin {0, NotCalled} => (init_status < 0 /\ ~states)
    /\ last.op = "async_init" =>
          /\ last.alloc = NULL => init_status = 0 - ENOMEM
          /\ (last.alloc # NULL /\ last.ring < 0) => init_status = last.ring
          /\ (last.alloc # NULL /\ last.ring >= 0) => init_status = 0

\* async_init has failed at the ring, after the mapping was allocated.
InitStatusContractWitness ==
    /\ last.op = "async_init"
    /\ last.alloc # NULL
    /\ last.ring < 0
    /\ init_status = last.ring
    /\ ~states

\* The queue of worker w as the spec describes it after init: the free list
\* holds entries 0 .. queue_depth - 1 in index order, circularly linked both
\* ways, and ready and completed are empty.
WellFormedQueue(w) ==
    /\ free[w] = QueueEntry(queue_depth, w, 0)
    /\ ready[w] = NULL
    /\ completed[w] = NULL
    /\ ListSeq(free[w]) =
          [k \in 1 .. queue_depth |-> QueueEntry(queue_depth, w, k - 1)]
    /\ \A j \in 0 .. (queue_depth - 1) :
          /\ next[QueueEntry(queue_depth, w, j)] =
                QueueEntry(queue_depth, w, (j + 1) % queue_depth)
          /\ prev[QueueEntry(queue_depth, w, j)] =
                QueueEntry(queue_depth, w, (j - 1 + queue_depth) % queue_depth)

\* C19: after async_init has returned 0, for every queue_depth >= 1, each
\* worker's free list holds all its entries in index order as a well-formed
\* circular list (entry j's next is entry (j+1) mod queue_depth, its prev is
\* entry (j-1+queue_depth) mod queue_depth), and ready and completed are
\* empty.
InitListsWellFormed ==
    (last.op = "async_init" /\ init_status = 0) =>
        \A w \in Workers : WellFormedQueue(w)

\* ------------------------------------------------------------ lists alone
\* Any sequence of fifo_pop and fifo_push calls on the three lists of one
\* worker, starting from the lists that async_init builds: an entry popped
\* from a list is in hand (held) until it is pushed onto a list.
MaxFifoOps == 6

ListNames == {"free", "ready", "completed"}
HeadOf(l, w) ==
    CASE l = "free" -> free[w]
      [] l = "ready" -> ready[w]
      [] l = "completed" -> completed[w]

InitFifo ==
    \E c \in {x \in Configs : x[2] = 1} :
        Boot(c, <<MaxFifoOps, 0>>, <<c[1], 0>>, NoTests(c))

\* The heads of worker w's lists when list l gets the head h.
WithHead(l, w, h) ==
    /\ free' = IF l = "free" THEN [free EXCEPT ![w] = h] ELSE free
    /\ ready' = IF l = "ready" THEN [ready EXCEPT ![w] = h] ELSE ready
    /\ completed' = IF l = "completed" THEN [completed EXCEPT ![w] = h]
                    ELSE completed

\* fifo_pop(&state->l, lock).
FifoPop(w, l) ==
    /\ nreq < req_budget
    /\ LET r == fifo_pop(HeadOf(l, w), next, prev)
       IN /\ WithHead(l, w, r.head)
          /\ next' = r.next
          /\ prev' = r.prev
          /\ held' = IF r.out = NULL THEN held
                     ELSE [held EXCEPT ![r.out] = @ + 1]
          /\ last' = [op |-> "fifo_pop", w |-> w, e |-> r.out, ret |-> l]
    /\ nreq' = nreq + 1
    /\ UNCHANGED <<config, lifecycle, threads, sizes, path, fd, loader_shm, shm_wfd,
                   shm_objs, ring, i, responder, aborted, faults, outstanding,
                   nsub, ndeliv, read_ok, reorder, test>>

\* fifo_push(&state->l, lock, e) for an entry in hand.
FifoPush(w, l, e) ==
    /\ nreq < req_budget
    /\ worker(e) = w
    /\ held[e] > 0
    /\ LET q == fifo_push(HeadOf(l, w), next, prev, e)
       IN /\ WithHead(l, w, q.head)
          /\ next' = q.next
          /\ prev' = q.prev
    /\ held' = [held EXCEPT ![e] = @ - 1]
    /\ last' = [op |-> "fifo_push", w |-> w, e |-> e, ret |-> l]
    /\ nreq' = nreq + 1
    /\ UNCHANGED <<config, lifecycle, threads, sizes, path, fd, loader_shm, shm_wfd,
                   shm_objs, ring, i, responder, aborted, faults, outstanding,
                   nsub, ndeliv, read_ok, reorder, test>>

NextFifo ==
    \/ \E w \in Workers, l \in ListNames : FifoPop(w, l)
    \/ \E w \in Workers, l \in ListNames, e \in Entries : FifoPush(w, l, e)

SpecFifo == InitFifo /\ [][NextFifo]_vars

\* The head of list l of worker w after the step.
HeadOfNext(l, w) ==
    CASE l = "free" -> free'[w]
      [] l = "ready" -> ready'[w]
      [] l = "completed" -> completed'[w]

\* C20: under any sequence of fifo_push and fifo_pop calls a list is a FIFO
\* queue: a push appends its element, a pop returns and removes the element
\* pushed earliest among those in the list, and returns NULL exactly when
\* the list is empty.
ListIsFifo ==
    [][/\ last'.op = "fifo_pop" =>
             LET q == ListSeq(HeadOf(last'.ret, last'.w))
                 after == ListOf(HeadOfNext(last'.ret, last'.w), next')
             IN IF q = <<>>
                THEN last'.e = NULL /\ after = <<>>
                ELSE last'.e = Head(q) /\ after = Tail(q)
       /\ last'.op = "fifo_push" =>
             ListOf(HeadOfNext(last'.ret, last'.w), next')
                = Append(ListSeq(HeadOf(last'.ret, last'.w)), last'.e)]_vars

\* ---------------------------------------------------- well-linked lists
\* The same calls on the lists of one worker whose queue async_init has
\* linked correctly, up to a depth of MaxFifoDepth.
MaxFifoDepth == 4

InitFifoLinked ==
    \E qd \in {x \in 1 .. MaxFifoDepth : WellLinked(x)} :
        Boot(<<qd, 1>>, <<MaxFifoOps, 0>>, <<qd, 0>>, NoTests(<<qd, 1>>))

SpecFifoLinked == InitFifoLinked /\ [][NextFifo]_vars

\* The list that starts at head is empty or a circular doubly linked list:
\* next leads from the head through every member once and back to the head,
\* the head's prev is the tail, and x.next.prev = x for every member.
Circular(head) ==
    head # NULL =>
        LET s == ListSeq(head)
        IN /\ next[s[Len(s)]] = head
           /\ prev[head] = s[Len(s)]
           /\ \A k \in 1 .. Len(s) :
                 /\ next[s[k]] = s[(k % Len(s)) + 1]
                 /\ prev[next[s[k]]] = s[k]

\* C21: after every completed fifo_push or fifo_pop a non-empty list is a
\* circular doubly linked list: the tail's next is the head, the head's prev
\* is the tail, and x.next.prev = x for every member x.
ListsCircular ==
    last.op \in {"fifo_push", "fifo_pop"} =>
        \A w \in Workers : \A l \in ListNames : Circular(HeadOf(l, w))

\* ---------------------------------------------------- states of an entry
\* Where entry e is: on a list of its worker ("free", "ready",
\* "completed"), with the loader ("loader": staged for a batch, submitted to
\* the ring, or completed and not yet seen), or with its worker between
\* try_get and release ("served").
EntryState(e) ==
    (IF e \in Members(free[worker(e)]) THEN {"free"} ELSE {})
    \cup (IF e \in Members(ready[worker(e)]) THEN {"ready"} ELSE {})
    \cup (IF e \in Members(completed[worker(e)]) THEN {"completed"} ELSE {})
    \cup (IF inflight[e] > 0 \/ InCq(e) > 0 \/ e \in StagedEntries
          THEN {"loader"} ELSE {})
    \cup (IF held[e] > 0 THEN {"served"} ELSE {})

\* The cycle of the states.
Cycle ==
    {<<"free", "ready">>, <<"ready", "loader">>, <<"loader", "completed">>,
     <<"completed", "served">>, <<"served", "free">>}

\* C22: the state of an entry changes only along free -> ready -> loader
\* -> completed -> served -> free, or from the loader back to ready when the
\* reader's open or setup failed; an entry is never in two states.  (The
\* entries of a worker that a failed assert has ended are in no state.)
EntryMoves ==
    [][\A e \in Entries :
          LET a == EntryState(e)
              b == EntryState(e)'
          IN \/ worker(e) \in aborted'
             \/ a = b /\ Cardinality(a) = 1
             \/ \E m \in Cycle : a = {m[1]} /\ b = {m[2]}
             \/ /\ a = {"loader"}
                /\ b = {"ready"}
                /\ last'.op = "reader"
                /\ last'.ret # "ok"]_vars

\* ------------------------------------------------------ failed completions
\* C23: when the completion that the responder waited for carries a negative
\* result, the responder marks it as seen, so that the completion queue
\* advances past it and the next wait returns another completion.
FailedCompletionSeen ==
    [][(last'.op = "responder" /\ last'.ret \in {"failed", "exit"}) =>
          /\ cq # <<>>
          /\ Head(cq).res = "err"
          /\ cq' = Tail(cq)]_vars

\* One worker with one entry, whose reads may fail with an I/O error.
MaxErrRequests == 2

InitErrors ==
    Boot(<<1, 1>>, <<MaxErrRequests, MaxFaults>>, <<1, 0>>, NoTests(<<1, 1>>))

SpecErrors == InitErrors /\ [][Next]_vars

\* The failed completions that the kernel has delivered: none of them is
\* ever taken off the completion queue.
FailedCompletions == {k \in 1 .. Len(cq) : cq[k].res = "err"}

\* C24: the loader exits because of read errors only when ErrLimit
\* consecutive completions carried a negative result; a successful
\* completion resets the responder's count.
ExitAfterErrLimit ==
    /\ (last.op = "responder" /\ last.ret = "exit") =>
           Cardinality(FailedCompletions) >= ErrLimit
    /\ (last.op = "responder" /\ last.ret = "completed") => cnt = 0

\* ------------------------------------------------- try_get from two threads
\* A worker process whose threads call async_try_get on the same queue.  A
\* call is two steps: the unlocked test of state->completed, then the pop
\* under the lock and what follows it.  test[w].checked holds the threads of
\* worker w that have passed the unlocked test.
MaxGetters == 2
MaxRaceRequests == 3

Getters == 1 .. MaxGetters
Threads == [pc |-> "threads", checked |-> {}]

InitRace ==
    \E qd \in {x \in 1 .. MaxQueueDepth : WellLinked(x)} :
        Boot(<<qd, 1>>, <<MaxRaceRequests, 0>>, <<qd, 0>>,
             [w \in {0} |-> Threads])

\* Where e = NULL is dereferenced (e->shm_fp is handed to shm_open, then
\* e->shm_wfd is written): the process is ended by a signal, in shm_open or
\* at the store.
NullDeref == {"SIGSEGV in shm_open", "SIGSEGV at the store"}

\* if (state->completed != NULL), read without the lock.
TryGetCheck(w, t) ==
    /\ w \notin aborted
    /\ ndeliv < req_budget
    /\ test[w].pc = "threads"
    /\ t \notin test[w].checked
    /\ IF completed[w] = NULL
       THEN /\ last' = Op("try_get", w, NULL, "null")
            /\ UNCHANGED test
       ELSE /\ last' = Op("try_get_check", w, completed[w], "non-empty")
            /\ test' = [test EXCEPT ![w].checked = @ \cup {t}]
    /\ UNCHANGED <<config, lifecycle, threads, lists, path, fd, loader_shm, shm_wfd,
                   shm_objs, ring, i, responder, aborted, held, faults, ghost,
                   reorder, sizes>>

\* e = fifo_pop(&state->completed, ..) and the rest of async_try_get, in a
\* thread that has passed the test.
TryGetPop(w, t) ==
    /\ test[w].pc = "threads"
    /\ t \in test[w].checked
    /\ test' = [test EXCEPT ![w].checked = @ \ {t}]
    /\ IF completed[w] # NULL
       THEN async_try_get(w)
       ELSE /\ w \notin aborted
            /\ ndeliv < req_budget
            /\ \E o \in NullDeref : last' = Op("try_get", w, NULL, o)
            /\ aborted' = aborted \cup {w}
            /\ UNCHANGED <<config, lifecycle, threads, lists, path, fd, loader_shm,
                           shm_wfd, shm_objs, ring, i, responder, held,
                           faults, ghost, reorder, sizes>>

NextRace ==
    \/ \E w \in Workers, p \in Paths : async_try_request(w, p) /\ UNCHANGED test
    \/ \E w \in Workers, t \in Getters : TryGetCheck(w, t)
    \/ \E w \in Workers, t \in Getters : TryGetPop(w, t)
    \/ \E e \in Entries : async_release(e) /\ UNCHANGED test
    \/ async_reader_loop
    \/ \E e \in Entries : KernelComplete(e)
    \/ async_responder_loop

SpecRace == InitRace /\ [][NextRace]_vars

\* A thread of worker w pops after its test and finds completed empty.
RacedPop(w) ==
    /\ test[w].pc = "threads"
    /\ test'[w].checked # test[w].checked
    /\ test'[w].checked \subseteq test[w].checked
    /\ completed[w] = NULL

\* C25: when try_get's unlocked test saw a non-empty completed list and the
\* pop under the lock returns no entry, try_get returns null: it opens and
\* maps no shared-memory object, touches no entry, and the worker goes on.
RacedPopReturnsNull ==
    [][\A w \in Workers :
          RacedPop(w) =>
              /\ last'.op = "try_get"
              /\ last'.ret = "null"
              /\ aborted' = aborted
              /\ \A v \in Workers : SameLists(v)
              /\ path' = path
              /\ SameResources]_vars

\* ------------------------------------------------------------- idle drain
\* C26: with at least one request staged and the staging buffer not full,
\* the reader drains the buffer exactly when it has made
\* max_idle_iters * n_workers consecutive visits that staged nothing.
IdleDrainAtLimit ==
    [][(ReaderStep /\ n_queued > 0 /\ n_queued # dispatch_n) =>
          (last'.trigger <=> idle_iters = max_idle_iters * n_states)]_vars

\* ---------------------------------------------------------- failed setup
\* The reader's setup of the entry it popped has failed in this step: at
\* shm_open or ftruncate (the status says so), or at mmap, which has
\* returned MAP_FAILED.
SetupFailed ==
    /\ last'.op = "reader"
    /\ last'.e # NULL
    /\ \/ last'.ret \in {"shm_open", "ftruncate"}
       \/ shm_ldata'[last'.e] = "MAP_FAILED" /\ shm_ldata[last'.e] # "MAP_FAILED"

\* C27: when shm_open, ftruncate or mmap fails in the reader's setup of an
\* entry, the reader closes the file, unlinks and closes the object it
\* created, prepares nothing in the ring for the entry and pushes the entry
\* back onto its owner's ready list, where alone it then is.
SetupFailureUndone ==
    [][SetupFailed =>
          LET e == last'.e
          IN /\ e \in Range(ListOf(ready'[worker(e)], next'))
             /\ \A x \in Entries : x = e => EntryState(x)' = {"ready"}
             /\ fd'[e] = "none"
             /\ shm_lfd'[e] = FALSE
             /\ shm_lmapped'[e] = FALSE
             /\ shm_objs' \subseteq shm_objs
             /\ ring' = ring]_vars

\* C28: in every state, shm_lmapped = true means that shm_ldata is a valid
\* mapping of exactly size bytes made by the loader and that shm_lfd is an
\* open descriptor, also after a failed shm_open, ftruncate or mmap.
LmappedMeansMapped ==
    \A e \in Entries :
        shm_lmapped[e] =>
            /\ shm_ldata[e] = "mapped"
            /\ llen[e] = size[e]
            /\ shm_lfd[e]

\* ------------------------------------------------------ reuse of a slot
\* An I/O of the direct loader through the slot of the entry it popped.
SlotIo == last'.op = "reader" /\ "unmap" \in DOMAIN last'

Owners(n) ==
    {e \in Entries :
        /\ shm_fp[e] = n
        /\ EntryState(e) \cap {"loader", "completed", "served"} # {}}

\* C30: when no two live entries have the same shared-memory name, the
\* object of an entry exists from its creation by the reader until the
\* worker's release: try_get finds it, release unlinks it, once, and no
\* object is left behind by entries that have been released.
ObjectLivesUntilRelease ==
    /\ [](last.op = "try_get" => last.ret # "abort")
    /\ [](\A n \in shm_objs : Owners(n) # {})
    /\ [](\A e \in Entries : held[e] > 0 => shm_fp[e] \in shm_objs)
    /\ [][last'.op = "release" =>
             /\ shm_fp[last'.e] \in shm_objs
             /\ shm_objs' = shm_objs \ {shm_fp[last'.e]}]_vars

\* Two requests have been served and released, and no object remains.
ObjectLivesUntilReleaseWitness ==
    /\ last.op = "release"
    /\ ndeliv >= 2
    /\ \A e \in Entries : held[e] = 0
    /\ shm_objs = {}

\* ------------------------------------------------------- file descriptors
\* C31: the descriptor that the reader opens for an entry is closed once, by
\* the responder after a successful read or by the reader after a failed
\* setup: an entry on free, ready or completed or served has no open
\* descriptor, the responder closes a descriptor that is open, and the reader
\* opens a file for an entry only when the entry's last descriptor has been
\* closed.
FdClosedOnce ==
    /\ [](\A e \in Entries :
             (worker(e) \notin aborted
              /\ EntryState(e) \cap {"free", "ready", "completed", "served"} # {})
                 => fd[e] = "none")
    /\ [][(last'.op = "responder" /\ last'.ret = "completed") =>
             fd[last'.e] = "open"]_vars
    /\ [][(last'.op = "reader" /\ last'.e # NULL) =>
             fd[last'.e] = "none"]_vars

MaxLockRequests == 2

quiet == <<config, lifecycle, reorder, test>>

At(p, where) == pc[p].at = where
Goto(p, where, w, e, arg) ==
    pc' = [pc EXCEPT ![p] = [at |-> where, w |-> w, e |-> e, arg |-> arg]]
Return(p) == pc' = [pc EXCEPT ![p] = Idle]

\* A thread of the loader runs until the process exits; a worker runs until
\* a failed assert or a signal ends it.
Runs(p) ==
    IF p[1] = "worker" THEN p[2] \notin aborted ELSE loader_up

pthread_spin_lock(p, l) == lock[l] = NoProc /\ lock' = [lock EXCEPT ![l] = p]

\* An unlock that leaves the lock held.
spin_unlock_kept(l) == lock' = lock

pthread_spin_unlock(l) == lock' = [lock EXCEPT ![l] = NoProc]

\* pthread_spin_lock(lock) at the top of fifo_push and fifo_pop.
Acquire(p, from, l, to) ==
    /\ Runs(p)
    /\ At(p, from)
    /\ pthread_spin_lock(p, l)
    /\ pc' = [pc EXCEPT ![p].at = to]
    /\ UNCHANGED <<quiet, lists, path, fd, loader_shm, shm_wfd, shm_objs, ring,
                   i, responder, aborted, held, faults, ghost, sizes, last>>

\* async_try_request(state, path) is called.
TrCall(w, p) ==
    /\ Runs(Worker(w))
    /\ At(Worker(w), "idle")
    /\ nreq < req_budget
    /\ Goto(Worker(w), "tr_lock", w, NULL, p)
    /\ UNCHANGED <<quiet, lock, lists, path, fd, loader_shm, shm_wfd, shm_objs,
                   ring, i, responder, aborted, held, faults, ghost, sizes,
                   last>>

\* fifo_pop(&state->free, ..) from the lock to the unlock.
TrPop(w) ==
    /\ Runs(Worker(w))
    /\ At(Worker(w), "tr_pop")
    /\ LET r == fifo_pop(free[w], next, prev)
       IN /\ free' = [free EXCEPT ![w] = r.head]
          /\ next' = r.next
          /\ prev' = r.prev
          /\ Goto(Worker(w), IF r.out = NULL THEN "tr_fprintf" ELSE "tr_copy",
                  w, r.out, pc[Worker(w)].arg)
    /\ pthread_spin_unlock(LockOf(w, "free"))
    /\ UNCHANGED <<quiet, ready, completed, path, fd, loader_shm, shm_wfd,
                   shm_objs, ring, i, responder, aborted, held, faults, ghost,
                   sizes, last>>

\* fprintf(stderr, "free list is empty.\n"); return false.
TrFprintf(w) ==
    /\ Runs(Worker(w))
    /\ At(Worker(w), "tr_fprintf")
    /\ Return(Worker(w))
    /\ last' = Op("try_request", w, NULL, "false")
    /\ UNCHANGED <<quiet, lock, lists, path, fd, loader_shm, shm_wfd, shm_objs,
                   ring, i, responder, aborted, held, faults, ghost, sizes>>

\* strncpy(e->path, path, MAX_PATH_LEN).
TrCopy(w) ==
    /\ Runs(Worker(w))
    /\ At(Worker(w), "tr_copy")
    /\ path' = [path EXCEPT ![pc[Worker(w)].e] =
                   StoredPath(@, pc[Worker(w)].arg)]
    /\ pc' = [pc EXCEPT ![Worker(w)].at = "tr_lock2"]
    /\ UNCHANGED <<quiet, lock, lists, fd, loader_shm, shm_wfd, shm_objs, ring,
                   i, responder, aborted, held, faults, ghost, sizes, last>>

\* fifo_push(&state->ready, .., e) from the lock to the unlock; return true.
TrPush(w) ==
    /\ Runs(Worker(w))
    /\ At(Worker(w), "tr_push")
    /\ LET e == pc[Worker(w)].e
           q == fifo_push(ready[w], next, prev, e)
       IN /\ ready' = [ready EXCEPT ![w] = q.head]
          /\ next' = q.next
          /\ prev' = q.prev
          /\ last' = [op |-> "try_request", w |-> w, e |-> e, ret |-> "true",
                      arg |-> pc[Worker(w)].arg]
    /\ pthread_spin_unlock(LockOf(w, "ready"))
    /\ Return(Worker(w))
    /\ outstanding' = [outstanding EXCEPT ![w] = @ + 1]
    /\ nreq' = nreq + 1
    /\ UNCHANGED <<quiet, free, completed, path, fd, loader_shm, shm_wfd,
                   shm_objs, ring, i, responder, aborted, held, faults, nsub,
                   ndeliv, read_ok, sizes>>

\* A call that goes on to the pop whatever the head of the list is.
TgCheck_blind(w) ==
    /\ Runs(Worker(w))
    /\ At(Worker(w), "idle")
    /\ ndeliv < req_budget
    /\ last' = Op("try_get_check", w, completed[w], "unchecked")
    /\ Goto(Worker(w), "tg_lock", w, NULL, <<>>)
    /\ UNCHANGED <<quiet, lock, lists, path, fd, loader_shm, shm_wfd, shm_objs,
                   ring, i, responder, aborted, held, faults, ghost, sizes>>

\* async_try_get(state): if (state->completed != NULL), without the lock.
TgCheck(w) ==
    /\ Runs(Worker(w))
    /\ At(Worker(w), "idle")
    /\ ndeliv < req_budget
    /\ IF completed[w] = NULL
       THEN /\ last' = Op("try_get", w, NULL, "null")
            /\ UNCHANGED pc
       ELSE /\ last' = Op("try_get_check", w, completed[w], "non-empty")
            /\ Goto(Worker(w), "tg_lock", w, NULL, <<>>)
    /\ UNCHANGED <<quiet, lock, lists, path, fd, loader_shm, shm_wfd, shm_objs,
                   ring, i, responder, aborted, held, faults, ghost, sizes>>

\* fifo_pop(&state->completed, ..) from the lock to the unlock.
TgPop(w) ==
    /\ Runs(Worker(w))
    /\ At(Worker(w), "tg_pop")
    /\ LET r == fifo_pop(completed[w], next, prev)
       IN /\ completed' = [completed EXCEPT ![w] = r.head]
          /\ next' = r.next
          /\ prev' = r.prev
          /\ Goto(Worker(w), "tg_open", w, r.out, <<>>)
          /\ last' = Op("try_get_pop", w, r.out, "")
    /\ pthread_spin_unlock(LockOf(w, "completed"))
    /\ UNCHANGED <<quiet, free, ready, path, fd, loader_shm, shm_wfd, shm_objs,
                   ring, i, responder, aborted, held, faults, ghost, sizes>>

\* shm_open, assert, mmap, assert; return e.
TgOpen(w) ==
    /\ Runs(Worker(w))
    /\ At(Worker(w), "tg_open")
    /\ Return(Worker(w))
    /\ LET e == pc[Worker(w)].e
       IN IF e = NULL
          THEN /\ \E o \in NullDeref : last' = Op("try_get", w, NULL, o)
               /\ aborted' = aborted \cup {w}
               /\ UNCHANGED <<shm_wfd, wlen, held, ndeliv, read_ok>>
          ELSE /\ read_ok' = [read_ok EXCEPT ![e] = IF @ > 0 THEN @ - 1 ELSE 0]
               /\ IF shm_fp[e] \in shm_objs
                  THEN /\ shm_wfd' = [shm_wfd EXCEPT ![e] = TRUE]
                       /\ wlen' = [wlen EXCEPT ![e] = size[e]]
                       /\ held' = [held EXCEPT ![e] = @ + 1]
                       /\ ndeliv' = ndeliv + 1
                       /\ last' = Op("try_get", w, e, "entry")
                       /\ UNCHANGED aborted
                  ELSE /\ aborted' = aborted \cup {w}
                       /\ last' = Op("try_get", w, e, "abort")
                       /\ UNCHANGED <<shm_wfd, wlen, held, ndeliv>>
    /\ UNCHANGED <<quiet, lock, lists, path, fd, loader_shm, shm_objs, ring, i,
                   responder, faults, outstanding, nreq, nsub, size, shm_len,
                   llen>>

\* async_release(e): shm_unlink, close, munmap.
RlSys(e) ==
    /\ Runs(Worker(worker(e)))
    /\ At(Worker(worker(e)), "idle")
    /\ held[e] > 0
    /\ shm_objs' = shm_objs \ {shm_fp[e]}
    /\ shm_len' = [n \in shm_objs \ {shm_fp[e]} |-> shm_len[n]]
    /\ shm_wfd' = [shm_wfd EXCEPT ![e] = FALSE]
    /\ wlen' = [wlen EXCEPT ![e] = 0]
    /\ held' = [held EXCEPT ![e] = @ - 1]
    /\ Goto(Worker(worker(e)), "rl_lock", worker(e), e, <<>>)
    /\ UNCHANGED <<quiet, lock, lists, path, fd, loader_shm, ring, i, responder,
                   aborted, faults, ghost, size, llen, last>>

\* fifo_push(&e->worker->free, .., e) from the lock to the unlock.
RlPush(w) ==
    /\ Runs(Worker(w))
    /\ At(Worker(w), "rl_push")
    /\ LET e == pc[Worker(w)].e
           q == fifo_push(free[w], next, prev, e)
       IN /\ free' = [free EXCEPT ![w] = q.head]
          /\ next' = q.next
          /\ prev' = q.prev
          /\ last' = Op("release", w, e, "")
    /\ pthread_spin_unlock(LockOf(w, "free"))
    /\ Return(Worker(w))
    /\ outstanding' = [outstanding EXCEPT ![w] = @ - 1]
    /\ UNCHANGED <<quiet, ready, completed, path, fd, loader_shm, shm_wfd,
                   shm_objs, ring, i, responder, aborted, held, faults, nreq,
                   nsub, ndeliv, read_ok, sizes>>

\* The reader's loop: st = &ld->states[i++ % ld->n_states].
RdVisit ==
    /\ Runs(Reader)
    /\ reader_up
    /\ At(Reader, "idle")
    /\ nsub < req_budget
    /\ i' = NextVisit(i)
    /\ Goto(Reader, "rd_lock", i, NULL, <<>>)
    /\ UNCHANGED <<quiet, lock, lists, path, fd, loader_shm, shm_wfd, shm_objs,
                   ring, responder, aborted, held, faults, ghost, sizes, last>>

\* fifo_pop(&st->ready, ..) from the lock to the unlock; continue when it
\* returns NULL.
RdPop ==
    /\ Runs(Reader)
    /\ At(Reader, "rd_pop")
    /\ LET w == pc[Reader].w
           r == fifo_pop(ready[w], next, prev)
       IN /\ ready' = [ready EXCEPT ![w] = r.head]
          /\ next' = r.next
          /\ prev' = r.prev
          /\ IF r.out = NULL
             THEN Return(Reader) /\ last' = Op("reader", w, NULL, "empty")
             ELSE Goto(Reader, "rd_io", w, r.out, <<>>) /\ UNCHANGED last
          /\ pthread_spin_unlock(LockOf(w, "ready"))
    /\ UNCHANGED <<quiet, free, completed, path, fd, loader_shm, shm_wfd,
                   shm_objs, ring, i, responder, aborted, held, faults, ghost,
                   sizes>>

\* async_perform_io(ld, e) and the test of its status.
RdIo ==
    /\ Runs(Reader)
    /\ At(Reader, "rd_io")
    /\ LET e == pc[Reader].e
           w == pc[Reader].w
       IN \E outcome \in IoOutcomes(e) :
          LET io == async_perform_io(e, outcome)
          IN /\ fd' = [fd EXCEPT ![e] = io.fd]
             /\ shm_fp' = [shm_fp EXCEPT ![e] = io.shm_fp]
             /\ shm_lfd' = [shm_lfd EXCEPT ![e] = io.shm_lfd]
             /\ shm_lmapped' = [shm_lmapped EXCEPT ![e] = io.shm_lmapped]
             /\ shm_ldata' = [shm_ldata EXCEPT ![e] = io.shm_ldata]
             /\ shm_objs' = io.shm_objs
             /\ shm_len' = io.shm_len
             /\ size' = [size EXCEPT ![e] = io.size]
             /\ llen' = [llen EXCEPT ![e] = io.llen]
             /\ inflight' = [inflight EXCEPT ![e] = io.inflight]
             /\ faults' = IF outcome \in {"ok", "open"} THEN faults
                          ELSE faults + 1
             /\ nsub' = IF io.status = "ok" THEN nsub + 1 ELSE nsub
             /\ IF io.status = "ok"
                THEN /\ Return(Reader)
                     /\ last' = [op |-> "reader", w |-> w, e |-> e,
                                 ret |-> "ok", unmap |-> io.unmap]
                ELSE /\ Goto(Reader, "rd_fprintf", w, e, <<io.status>>)
                     /\ UNCHANGED last
    /\ UNCHANGED <<quiet, lock, lists, path, shm_wfd, wlen, cq, i, responder,
                   aborted, held, outstanding, nreq, ndeliv, read_ok>>

\* fprintf(stderr, "reader failed to issue IO; ..").
RdFprintf ==
    /\ Runs(Reader)
    /\ At(Reader, "rd_fprintf")
    /\ pc' = [pc EXCEPT ![Reader].at = "rd_lock2"]
    /\ UNCHANGED <<quiet, lock, lists, path, fd, loader_shm, shm_wfd, shm_objs,
                   ring, i, responder, aborted, held, faults, ghost, sizes,
                   last>>

\* fifo_push(&st->ready, .., e) from the lock to the unlock.
RdPush ==
    /\ Runs(Reader)
    /\ At(Reader, "rd_push")
    /\ LET e == pc[Reader].e
           w == pc[Reader].w
           q == fifo_push(ready[w], next, prev, e)
       IN /\ ready' = [ready EXCEPT ![w] = q.head]
          /\ next' = q.next
          /\ prev' = q.prev
          /\ last' = Op("reader", w, e, pc[Reader].arg[1])
          /\ pthread_spin_unlock(LockOf(w, "ready"))
    /\ Return(Reader)
    /\ UNCHANGED <<quiet, free, completed, path, fd, loader_shm, shm_wfd,
                   shm_objs, ring, i, responder, aborted, held, faults, ghost,
                   sizes>>

\* The responder's loop up to the push: io_uring_wait_cqe; on a negative
\* result fprintf, count, exit or continue; else io_uring_cqe_seen and
\* close(e->fd).
RsWait ==
    /\ Runs(Responder)
    /\ responder_up
    /\ At(Responder, "idle")
    /\ cq # <<>>
    /\ LET c == Head(cq)
           e == c.e
       IN IF c.res = "err"
          THEN /\ cnt' = cnt + 1
               /\ loader_up' = ~(cnt > ErrLimit)
               /\ last' = Op("responder", worker(e), e,
                             IF cnt > ErrLimit THEN "exit" ELSE "failed")
               /\ UNCHANGED <<cq, fd, pc>>
          ELSE /\ cq' = Tail(cq)
               /\ fd' = [fd EXCEPT ![e] = "none"]
               /\ Goto(Responder, "rs_lock", worker(e), e, <<>>)
               /\ UNCHANGED <<cnt, loader_up, last>>
    /\ UNCHANGED <<quiet, lock, lists, path, loader_shm, shm_wfd, shm_objs,
                   inflight, i, aborted, held, faults, ghost, sizes>>

\* fifo_push(&e->worker->completed, .., e) from the lock to the unlock.
RsPush ==
    /\ Runs(Responder)
    /\ At(Responder, "rs_push")
    /\ LET e == pc[Responder].e
           w == pc[Responder].w
           q == fifo_push(completed[w], next, prev, e)
       IN /\ completed' = [completed EXCEPT ![w] = q.head]
          /\ next' = q.next
          /\ prev' = q.prev
          /\ read_ok' = [read_ok EXCEPT ![e] = @ + 1]
          /\ last' = Op("responder", w, e, "completed")
          /\ pthread_spin_unlock(LockOf(w, "completed"))
    /\ Return(Responder)
    /\ UNCHANGED <<quiet, free, ready, path, fd, loader_shm, shm_wfd, shm_objs,
                   ring, i, responder, aborted, held, faults, outstanding, nreq,
                   nsub, ndeliv, sizes>>

\* One entry, two entries of one worker, one entry of each of two workers.
LockConfigs == {<<1, 1>>, <<2, 1>>, <<1, 2>>}

InitLocks ==
    \E c \in LockConfigs :
        Boot(c, <<MaxLockRequests, MaxFaults>>, <<c[1], 0>>, NoTests(c))

NextLocks ==
    \/ \E w \in Workers, p \in Paths : TrCall(w, p)
    \/ \E w \in Workers :
          Acquire(Worker(w), "tr_lock", LockOf(w, "free"), "tr_pop")
    \/ \E w \in Workers : TrPop(w)
    \/ \E w \in Workers : TrFprintf(w)
    \/ \E w \in Workers : TrCopy(w)
    \/ \E w \in Workers :
          Acquire(Worker(w), "tr_lock2", LockOf(w, "ready"), "tr_push")
    \/ \E w \in Workers : TrPush(w)
    \/ \E w \in Workers : TgCheck(w)
    \/ \E w \in Workers :
          Acquire(Worker(w), "tg_lock", LockOf(w, "completed"), "tg_pop")
    \/ \E w \in Workers : TgPop(w)
    \/ \E w \in Workers : TgOpen(w)
    \/ \E e \in Entries : RlSys(e)
    \/ \E w \in Workers :
          Acquire(Worker(w), "rl_lock", LockOf(w, "free"), "rl_push")
    \/ \E w \in Workers : RlPush(w)
    \/ RdVisit
    \/ Acquire(Reader, "rd_lock", LockOf(pc[Reader].w, "ready"), "rd_pop")
    \/ RdPop
    \/ RdIo
    \/ RdFprintf
    \/ Acquire(Reader, "rd_lock2", LockOf(pc[Reader].w, "ready"), "rd_push")
    \/ RdPush
    \/ RsWait
    \/ Acquire(Responder, "rs_lock", LockOf(pc[Responder].w, "completed"),
               "rs_push")
    \/ RsPush
    \/ \E e \in Entries : KernelComplete(e)

SpecLocks == InitLocks /\ [][NextLocks]_vars

\* ---------------------------------------------------------- lock discipline
Procs == DOMAIN pc
Locks == DOMAIN lock
HeldBy(p) == {l \in Locks : lock[l] = p}

\* The positions between pthread_spin_lock and pthread_spin_unlock, and the
\* list each of them works on.
Critical ==
    [tr_pop |-> "free", tr_push |-> "ready", tg_pop |-> "completed",
     rl_push |-> "free", rd_pop |-> "ready", rd_push |-> "ready",
     rs_push |-> "completed"]

InCritical(p) == pc[p].at \in DOMAIN Critical

\* The critical section that process p is in, up to its unlock.
Release(p) ==
    IF p[1] = "worker"
    THEN TrPop(p[2]) \/ TrPush(p[2]) \/ TgPop(p[2]) \/ RlPush(p[2])
    ELSE IF p = Reader THEN RdPop \/ RdPush
    ELSE RsPush

\* A process holds a lock exactly inside a critical section, and then only
\* the lock of the list it works on: none at the return of a call, none in a
\* system call or in diagnostic output, never two.
SelfContained ==
    \A p \in Procs :
        HeldBy(p) = IF InCritical(p)
                    THEN {LockOf(pc[p].w, Critical[pc[p].at])}
                    ELSE {}

InitLocksDeep ==
    \E c \in {x \in Configs : x[2] = 1} :
        Boot(c, <<MaxLockRequests, 0>>, <<c[1], 0>>, NoTests(c))

SpecLocksDeep == InitLocksDeep /\ [][NextLocks]_vars

\* The process that takes the step.
Actor(p) == pc'[p] # pc[p]

\* The links of entry x are written.
LinksWritten(x) == next'[x] # next[x] \/ prev'[x] # prev[x]

\* C34: a step that writes the head pointer of a list, or the prev/next
\* links of an entry that is a member of the list, is taken by the process
\* that holds the list's spinlock; so a push or pop on one list leaves the
\* links of the members of every other list alone.
WritesUnderLock ==
    [][\A w \in Workers, l \in ListNames :
          (\/ HeadOfNext(l, w) # HeadOf(l, w)
           \/ \E x \in Members(HeadOf(l, w)) : LinksWritten(x))
             => \E p \in Procs : Actor(p) /\ lock[LockOf(w, l)] = p]_vars

\* ------------------------------------------------- try_get from one thread
\* Worker w is between the unlocked test of async_try_get, which saw a
\* non-empty completed list, and the pop.
Checked(w) == pc[Worker(w)].at \in {"tg_lock", "tg_pop"}

\* C36: with one caller of try_get per queue, after the unlocked test has
\* seen a non-empty completed list the list stays non-empty until the pop,
\* whatever the responder does in between, and the pop returns the entry at
\* its head, which is not NULL.
CheckedPopReturnsEntry ==
    /\ [](\A w \in Workers : Checked(w) => completed[w] # NULL)
    /\ [][\A w \in Workers :
             (pc[Worker(w)].at = "tg_pop" /\ pc'[Worker(w)].at = "tg_open")
                => /\ pc'[Worker(w)].e # NULL
                   /\ pc'[Worker(w)].e = completed[w]]_vars

\* The pop has returned an entry and the responder, which took the lock
\* after it, is about to push another entry onto the same list.
CheckedPopReturnsEntryWitness ==
    /\ pc[Worker(0)].at = "tg_open"
    /\ pc[Worker(0)].e # NULL
    /\ pc[Responder].at = "rs_push"
    /\ pc[Responder].w = 0
    /\ last.op = "try_get_pop"

\* ---------------------------------------------- next to a failing request
\* Entry f is a request whose file cannot be opened: the reader pops it,
\* fails in open() and pushes it back, again and again.
OpenFails(f) ==
    /\ f \in Entries
    /\ ~Exists(path[f])
    /\ f \in Members(ready[worker(f)])

\* The responder has pushed e onto completed after its read.
Completed(e) ==
    e \in Entries /\ last.op = "responder" /\ last.e = e /\ last.ret = "completed"

\* C37: in the direct loader an accepted request for a file that can be
\* opened, made while a request whose open fails waits on the same or on
\* another ready list, is eventually submitted and completed under fair
\* scheduling of the reader, the kernel and the responder.
ServedNextToFailing ==
    \A e \in 1 .. MaxEntries :
        (Requested(e) /\ \E f \in Entries : f # e /\ OpenFails(f))
            ~> (Completed(e) \/ BudgetSpent)

\* An entry has completed while a failing request of the same worker is on
\* the ready list.
ServedNextToFailingWitness ==
    \E e, f \in Entries :
        /\ e # f /\ worker(e) = worker(f)
        /\ Completed(e)
        /\ OpenFails(f)

\* --------------------------------------------- names of different paths
\* Two files that exist, with different paths.
UnderscorePath == <<"d", "_", "b">>
NamePaths == {GoodPath, UnderscorePath}
MaxNameRequests == 2

\* The entries that carry a request: accepted and not yet released.
LiveEntries ==
    {e \in Entries :
        EntryState(e) \cap {"ready", "loader", "completed", "served"} # {}}

\* A request for a path that no live request has.
DifferentRequest(w, p) ==
    /\ p \notin {path[e] : e \in LiveEntries}
    /\ async_try_request(w, p)
    /\ UNCHANGED test

InitNames ==
    \E c \in {<<2, 1>>, <<1, 2>>} :
        Boot(c, <<MaxNameRequests, 0>>, <<c[1], 0>>, NoTests(c))

NextNames ==
    \/ \E w \in Workers, p \in NamePaths : DifferentRequest(w, p)
    \/ \E w \in Workers : async_try_get(w) /\ UNCHANGED test
    \/ \E e \in Entries : async_release(e) /\ UNCHANGED test
    \/ async_reader_loop
    \/ \E e \in Entries : KernelComplete(e)
    \/ async_responder_loop

SpecNames == InitNames /\ [][NextNames]_vars

\* C38: when the live requests have pairwise different paths, no two live
\* entries have the same shared-memory name, a release leaves the objects
\* of the other live entries in place, and the reader's setup for an entry
\* never opens the object that another live entry owns.
LiveNamesDiffer ==
    /\ [](\A e, f \in LiveEntries :
             (e # f /\ path[e] # path[f])
                => ShmName(path[e]) # ShmName(path[f]))
    /\ [][last'.op = "release" =>
             \A f \in Entries \ {last'.e} :
                 f \in Owners(shm_fp[f]) => shm_fp[f] \in shm_objs']_vars
    /\ [][(last'.op = "reader" /\ last'.ret = "ok") =>
             Owners(shm_fp'[last'.e]) \subseteq {last'.e}]_vars

\* The paths of the live requests are pairwise different.
LivePathsDiffer ==
    \A e, f \in LiveEntries : e # f => path[e] # path[f]

\* A release has unlinked the object that another live entry still owns.
ObjectOfOtherUnlinked ==
    /\ last.op = "release"
    /\ \E f \in LiveEntries \ {last.e} :
          /\ path[f] # path[last.e]
          /\ EntryState(f) \cap {"completed", "served"} # {}
          /\ shm_fp[f] \notin shm_objs

\* ------------------------------------------------------ the staging arrays
\* The reorder loader with dispatch_n = 0 and with dispatch_n above the
\* number of entries, on one queue of every depth, for files that exist.
MaxStageRequests == 4

InitStage ==
    \E c \in {x \in Configs : x[2] = 1},
       dn \in {0, MaxEntries + 1}, mi \in 0 .. MaxIdleIters :
        Boot(c, <<MaxStageRequests, 0>>, <<dn, mi>>, NoTests(c))

\* The workers request and do not collect.
NextStage ==
    \/ \E w \in Workers : async_try_request(w, GoodPath) /\ UNCHANGED test
    \/ async_reader_loop_reorder
    \/ \E e \in Entries : KernelComplete(e)
    \/ async_responder_loop

SpecStage == InitStage /\ [][NextStage]_vars

\* C39: in the reorder loader the number of staged requests never exceeds
\* n_workers * queue_depth, with dispatch_n = 0 and with dispatch_n above
\* that number, and the pointer array refers to each wrapper exactly once,
\* so that no two staged requests share a wrapper.
StagedWithinCapacity ==
    /\ n_queued <= n_states * queue_depth
    /\ Len(sortable) = n_states * queue_depth
    /\ {sortable[k] : k \in 1 .. Len(sortable)} = 1 .. (n_states * queue_depth)

\* The count alone.
StagedCountWithinCapacity == n_queued <= n_states * queue_depth

\* ------------------------------------------------------- requests in a row
\* Workers that request without collecting, on queues of every depth, while
\* the loader runs.
MaxBurstRequests == 4

InitBurst ==
    \E c \in Configs :
        Boot(c, <<MaxBurstRequests, 0>>, <<c[1], 0>>, NoTests(c))

NextBurst ==
    \/ \E w \in Workers, p \in Paths : async_try_request(w, p) /\ UNCHANGED test
    \/ async_reader_loop
    \/ \E e \in Entries : KernelComplete(e)
    \/ async_responder_loop

SpecBurst == InitBurst /\ [][NextBurst]_vars

\* ------------------------------------------------------------- sort alone
\* The sort test: an array of n wrappers gets its keys, then sort(to_sort, n)
\* is called once on the pointers to them.
MaxSortLen == 17
MaxSortKey == 1

InitSort ==
    Boot(<<MaxSortLen, 1>>, <<0, 0>>, <<MaxSortLen, 0>>,
         NoTests(<<MaxSortLen, 1>>))

\* wrappers[n].key = key; to_sort[n] = &wrappers[n].
SortFill(key) ==
    /\ last.op \in {"init", "fill"}
    /\ n_queued < Len(sortable)
    /\ wrappers' = [wrappers EXCEPT ![sortable[n_queued + 1]] =
                       [key |-> key, data |-> NULL]]
    /\ n_queued' = n_queued + 1
    /\ last' = Op("fill", 0, NULL, "")
    /\ UNCHANGED <<config, lifecycle, threads, sizes, lists, path, fd, loader_shm,
                   shm_wfd, shm_objs, ring, i, responder, aborted, held, ghost,
                   faults, idle_iters, sortable, test>>

\* sort(to_sort, n_queued).
SortCall(mode) ==
    /\ last.op \in {"init", "fill"}
    /\ sortable' = sort(SubSeq(sortable, 1, n_queued), mode)
                   \o SubSeq(sortable, n_queued + 1, Len(sortable))
    /\ last' = Op("sort", 0, NULL, mode)
    /\ UNCHANGED <<config, lifecycle, threads, sizes, lists, path, fd, loader_shm,
                   shm_wfd, shm_objs, ring, i, responder, aborted, held, ghost,
                   faults, idle_iters, n_queued, wrappers, test>>

NextSort ==
    \/ \E key \in 0 .. MaxSortKey : SortFill(key)
    \/ \E mode \in MemcpyModes : SortCall(mode)

SpecSort == InitSort /\ [][NextSort]_vars

\* The first n pointers are in non-decreasing key order.
Ascending(a, n) == \A k \in 1 .. (n - 1) : Key(a[k]) <= Key(a[k + 1])

\* C13: sort(to_sort, n) leaves the same n pointers, each once, in
\* non-decreasing key order, for every n >= 0, with duplicate keys, below
\* SMALL_N and from SMALL_N on.
SortSorts ==
    last.op = "sort" =>
        /\ {sortable[k] : k \in 1 .. n_queued} = 1 .. n_queued
        /\ Ascending(sortable, n_queued)

\* The same, when memcpy copies overlapping regions like memmove.
SortSortsMemmove == last.ret = "memmove" => SortSorts

\* The pointers are staged in the order of the wrappers they name
\* (to_sort[n] = &wrappers[n]); sort is called once on them.
StagedBefore(p, q) == p < q

\* C35: the sort is stable: after sort(to_sort, n) two pointers with equal
\* keys are in the order in which they were staged, below SMALL_N and from
\* SMALL_N on.
SortStable ==
    last.op = "sort" =>
        \A k, m \in 1 .. n_queued :
            (k < m /\ Key(sortable[k]) = Key(sortable[m]))
                => StagedBefore(sortable[k], sortable[m])

\* The same, when memcpy copies overlapping regions like memmove.
SortStableMemmove == last.ret = "memmove" => SortStable

====
